---- MODULE Spec2Model ----
(***************************************************************************)
(* State-machine model of the eBay sniper's bidding engine:                *)
(*   - the Store (tables auctions and bid_attempts, database/models.py),   *)
(*   - the Worker loop (server/worker.py): run_loop, _process_auction,     *)
(*     _pre_bid_price_check, _execute_bid,                                 *)
(*   - the Cancel handler (server/api.py remove_sniper),                   *)
(*   - the RequestCoalescer (server/cache.py).                             *)
(* Time is in milliseconds.  Every database commit is one atomic step; a   *)
(* handler is split exactly at the points where it waits for the network   *)
(* or starts a new database statement after a Python-side check.           *)
(***************************************************************************)
EXTENDS Integers, Sequences, FiniteSets, TLC

\* ------------------------------------------------------------------ bounds
MaxTime == 62000        \* the clock of the bidding phase stops here
MaxSettle == 92000      \* the clock of the reconciliation phase stops here

Workers == {1, 2}       \* scheduler instances sharing the Store
Threads == {1, 2, 3}    \* concurrent callers of the coalescer
Auctions == {"a1"}
EndTimes == {61000, 61300}

\* --------------------------------------------------------- program constants
BID_OFFSET_SECONDS == 3
PRE_BID_CHECK_SECONDS == 60
max_attempts == 4
WatchdogMs == 300
TickSleepMs == 500
delays == <<100, 250, 500>>
\* auctions.max_bid, and the prices get_auction_details can report
max_bid == [a \in Auctions |-> 150]
Prices == {100, 150, 200}

Scheduled == "Scheduled"
Executing == "Executing"
BidPlaced == "BidPlaced"
Failed == "Failed"
Cancelled == "Cancelled"
Skipped == "Skipped"
AuctionStatus == {Scheduled, Executing, BidPlaced, Failed, Cancelled, Skipped}
TerminalStatus == {BidPlaced, Failed, Skipped, Cancelled}

Success == "success"
FailedResult == "failed"

\* error messages written by the worker
MsgEndedBeforeBid == "Auction ended before bid could be placed"
MsgOutOfTime == "Ran out of time window for bid placement"
MsgExhausted == "All retry attempts exhausted"
MsgCrashed == "Worker crashed during execution, auction ended"
MsgEndedUnprocessed == "Auction ended before worker could process it"
\* the source writes the minus of T-60s as U+2212
MsgSkip == "Current price exceeded max bid at T-60s"

\* what one place_bid call can do: return, time out, or raise a
\* RequestException carrying one of these texts (ebay_client.place_bid)
MsgServerError == "eBay server error: 503"
MsgRateLimited == "Rate limited (429)"
MsgAuctionEnded == "eBay API error 10734: Auction has ended"
MsgExceedsMax == "eBay API error 10735: Bid amount exceeds maximum bid"
MsgItemNotFound == "eBay API error 10729: Item not found or auction ended"
MsgBelowIncrement == "eBay API error 10736: Bid amount is below the minimum bid increment"
MsgRetraction == "eBay API error 10730: Bid retraction not allowed"
MsgOwnItem == "eBay API error 10731: Cannot bid on your own item"
MsgOnBehalf == "eBay API error 10732: Cannot bid on behalf of another user"
MsgBlocked == "eBay API error 10733: Bidder is blocked from this auction"
\* the texts place_bid builds from error_code_messages
MappedErrors == {MsgItemNotFound, MsgAuctionEnded, MsgBelowIncrement, MsgExceedsMax,
                 MsgRetraction, MsgOwnItem, MsgOnBehalf, MsgBlocked}
BidErrors == {MsgServerError, MsgRateLimited} \cup MappedErrors

\* the digits that occur in an error text, in their order
DigitsOf(msg) ==
    CASE msg = MsgServerError -> <<5, 0, 3>>
      [] msg = MsgRateLimited -> <<4, 2, 9>>
      [] msg = MsgItemNotFound -> <<1, 0, 7, 2, 9>>
      [] msg = MsgAuctionEnded -> <<1, 0, 7, 3, 4>>
      [] msg = MsgBelowIncrement -> <<1, 0, 7, 3, 6>>
      [] msg = MsgExceedsMax -> <<1, 0, 7, 3, 5>>
      [] msg = MsgRetraction -> <<1, 0, 7, 3, 0>>
      [] msg = MsgOwnItem -> <<1, 0, 7, 3, 1>>
      [] msg = MsgOnBehalf -> <<1, 0, 7, 3, 2>>
      [] msg = MsgBlocked -> <<1, 0, 7, 3, 3>>
      [] OTHER -> <<>>
BidOutcomes == {"ok", "timeout"} \cup BidErrors

\* the clock moves in steps of one tick sleep; between the pre-check window
\* and the bid window lies a quiet period in which no window of
\* _process_auction is open, and the clock crosses it in one step
Quantum == TickSleepMs
QuietFrom == 3 * Quantum
LongWait == (PRE_BID_CHECK_SECONDS - BID_OFFSET_SECONDS) * 1000 - QuietFrom

\* AuctionOutcome, and NULL in auctions.final_price
Pending == "Pending"
Won == "Won"
Lost == "Lost"
NoPrice == 0
\* the reconciler leaves an auction alone until it has been over for 30 s
SettleSeconds == 30

\* _should_refresh_price: the cache TTL
RefreshTtlSeconds == 60

NoAuction == "none"
Expired == "expired"
NoMsg == "none"

VARIABLES
    now,                    \* datetime.utcnow()
    status,                 \* auctions.status
    auction_end_time_utc,   \* auctions.auction_end_time_utc
    current_price,          \* auctions.current_price
    last_price_refresh_utc, \* auctions.last_price_refresh_utc
    skip_reason,            \* auctions.skip_reason
    bid_attempts,           \* table bid_attempts, rows in insertion order
    pc,                     \* where each worker is in run_loop
    queue,                  \* auctions of the tick's query not yet processed
    snap,                   \* each worker session's loaded auction.status
    cur,                    \* the auction a worker is pre-checking or executing
    tnow,                   \* `now` captured by _process_auction
    attempt,                \* loop variable of the retry loop
    sleeping,               \* what is left of the worker's current time.sleep
    cancelReq,              \* Cancel requests between their read and their write
    instances,              \* the scheduler instances that have been started
    claims,                 \* history: claims that updated one row, per auction
    lostClaims,             \* history: has a claim updated no row
    bidCalls,               \* history: place_bid invocations per auction
    bidAmounts,             \* history: the amounts place_bid was called with, per auction
    accepted,               \* history: the auctions for which a place_bid call returned success
    requests,               \* RequestCoalescer._requests[key]
    events,                 \* the threading.Event of each flight: is it set
    tpc,                    \* where each coalescer caller is
    tevent,                 \* the done_event a caller holds
    tfirst,                 \* is_first of each caller
    tearly,                 \* history: the caller arrived while the flight was open
    tret,                   \* what get_or_execute returned or raised
    produced,               \* history: producer invocations, in order
    cancelledAtTick,        \* history: the auctions that were Cancelled when the tick began
    outcome,                \* auctions.outcome
    final_price,            \* auctions.final_price, NoPrice for NULL
    caught,                 \* history: the auctions whose outcome call raised into the except of the pass
    read,                   \* the GET request in progress: where it is, the row it loaded, its response
    limitedAt,              \* history: the last_price_refresh_utc that a rate-limited read found stale
    table,                  \* the auctions table as add_sniper and bulk_add_snipers see it, id = position
    areq,                   \* the POST /sniper/add requests: where each is, its input, its response
    bulk,                   \* the POST /sniper/bulk request: where it is, its items, its results
    oauth,                  \* eBayClient: oauth_app_token, oauth_user_token, their expires_at, the refresh token
    treq,                   \* the threads calling get_auction_details on the API's client
    resp                    \* the API's last answer to a request stopped by verify_token, to /auth or to get_logs

storeVars == <<status, auction_end_time_utc, current_price, last_price_refresh_utc,
               skip_reason, bid_attempts>>
workerVars == <<pc, queue, snap, cur, tnow, attempt, sleeping>>
cancelVars == <<cancelReq>>
bidHist == <<instances, claims, lostClaims, bidCalls, bidAmounts, accepted>>
histVars == <<bidHist, cancelledAtTick>>
coalVars == <<requests, events, tpc, tevent, tfirst, tearly, tret, produced>>
settleVars == <<outcome, final_price, caught>>
readVars == <<read, limitedAt>>
addVars == <<table, areq, bulk>>
tokVars == <<oauth, treq>>
authVars == <<resp>>
vars == <<now, storeVars, workerVars, cancelVars, histVars, coalVars, settleVars, readVars,
          addVars, tokVars, authVars>>

\* ------------------------------------------------------------------- Store

\* db.query(BidAttempt).filter(BidAttempt.auction_id == a)
AttemptsOf(a) == SelectSeq(bid_attempts, LAMBDA r : r.auction_id = a)

HasAttemptAssumed(a) == TRUE

\* db.query(BidAttempt).filter(BidAttempt.auction_id == auction.id).first()
HasAttempt(a) == Len(AttemptsOf(a)) > 0

\* bid_attempts.auction_id is the primary key: an INSERT of a second row for
\* the auction raises IntegrityError and the transaction is rolled back
PrimaryKeyFree(rows, a) == \A i \in 1..Len(rows) : rows[i].auction_id # a

BidAttempt(a, res, msg) ==
    [auction_id |-> a, result |-> res, error_message |-> msg]

ClaimRowsAnyStatus(a) == 1

\* rows_updated of UPDATE auctions SET status = 'Executing'
\*                 WHERE id = a AND status = 'Scheduled'
ClaimRows(a) == IF status[a] = Scheduled THEN 1 ELSE 0

\* the status check of remove_sniper on the row it has loaded
Cancellable(st) == st = Scheduled

\* ------------------------------------------------------------------ Worker

InWindowTwoSeconds(d) == 0 <= d /\ d < 2000

\* 0 <= time_until < 1, the window of the pre-check and of the bid
InWindow(d) == 0 <= d /\ d < 1000

ExpiredSession == [a \in Auctions |-> Expired]

\* auction.status as the worker's session sees it: the loaded value, or a
\* fresh SELECT when a commit or rollback has expired the object
Loaded(w, a) == IF snap[w][a] = Expired THEN status[a] ELSE snap[w][a]

\* "429" in error_str
Has429(msg) ==
    \E i \in 1..Len(DigitsOf(msg)) :
        i + 2 <= Len(DigitsOf(msg)) /\ SubSeq(DigitsOf(msg), i, i + 2) = <<4, 2, 9>>

\* "5" in error_str or "server error" in error_str.lower()
Has5(msg) ==
    \/ \E i \in 1..Len(DigitsOf(msg)) : DigitsOf(msg)[i] = 5
    \/ msg = MsgServerError

is_retryable_unbounded(msg, att) == Has429(msg) \/ Has5(msg)

is_retryable(msg, att) ==
    IF Has429(msg) /\ att < max_attempts - 1 THEN TRUE
    ELSE IF Has5(msg) THEN att < max_attempts - 1
    ELSE FALSE

OutOfTimeAtEnd(t, end) == t >= end

\* the watchdog in front of every attempt
OutOfTime(t, end) == t >= end - WatchdogMs

TickStartScheduledOnly(w) ==
    /\ w \in instances
    /\ pc[w] = "idle"
    /\ sleeping[w] = 0
    /\ LET active == {a \in Auctions : status[a] = Scheduled} IN
       /\ queue' = [queue EXCEPT ![w] = active]
       /\ snap' = [snap EXCEPT ![w] =
                     [a \in Auctions |-> IF a \in active THEN status[a] ELSE Expired]]
    /\ pc' = [pc EXCEPT ![w] = "loop"]
    /\ cancelledAtTick' = [cancelledAtTick EXCEPT ![w] =
                             {a \in Auctions : status[a] = Cancelled}]
    /\ UNCHANGED <<now, storeVars, cur, tnow, attempt, sleeping, cancelVars,
                   bidHist, coalVars, settleVars, readVars, addVars, tokVars, authVars>>

\* run_loop: the query for the active auctions at the start of a tick
TickStart(w) ==
    /\ w \in instances
    /\ pc[w] = "idle"
    /\ sleeping[w] = 0
    /\ LET active == {a \in Auctions : status[a] \in {Scheduled, Executing}} IN
       /\ queue' = [queue EXCEPT ![w] = active]
       /\ snap' = [snap EXCEPT ![w] =
                     [a \in Auctions |-> IF a \in active THEN status[a] ELSE Expired]]
    /\ pc' = [pc EXCEPT ![w] = "loop"]
    /\ cancelledAtTick' = [cancelledAtTick EXCEPT ![w] =
                             {a \in Auctions : status[a] = Cancelled}]
    /\ UNCHANGED <<now, storeVars, cur, tnow, attempt, sleeping, cancelVars,
                   bidHist, coalVars, settleVars, readVars, addVars, tokVars, authVars>>

\* ------------------------------------------------------------ reconciler

\* get_auction_outcome: what the bidding endpoint can answer.  A field the
\* reply does not carry is "missing"; value NoPrice is a reply without price.
OutcomeReplies ==
    [http : {"200"}, auctionStatus : {"ENDED", "ACTIVE", "missing"},
     highBidder : {"true", "false", "missing"}, value : {NoPrice, 125}]
    \cup [http : {"404", "500"}, auctionStatus : {"missing"},
          highBidder : {"missing"}, value : {NoPrice}]

IsHighBidderWhenMissing(reply) == reply.highBidder # "false"

\* data.get("highBidder", False)
IsHighBidder(reply) == reply.highBidder = "true"

get_auction_outcome_error_as_lost(reply) ==
    IF reply.http = "404"
    THEN [kind |-> "ok", outcome |-> Pending, final_price |-> NoPrice]
    ELSE IF reply.http # "200"
    THEN [kind |-> "ok", outcome |-> Lost, final_price |-> NoPrice]
    ELSE LET auction_status == IF reply.auctionStatus = "missing" THEN "UNKNOWN"
                               ELSE reply.auctionStatus
         IN IF auction_status = "ENDED"
            THEN [kind |-> "ok",
                  outcome |-> IF IsHighBidder(reply) THEN Won ELSE Lost,
                  final_price |-> reply.value]
            ELSE [kind |-> "ok", outcome |-> Pending, final_price |-> NoPrice]

\* get_auction_outcome: the reply mapped to outcome and final price; any
\* status other than 404 and 2xx is raised by raise_for_status
get_auction_outcome(reply) ==
    IF reply.http = "404"
    THEN [kind |-> "ok", outcome |-> Pending, final_price |-> NoPrice]
    ELSE IF reply.http # "200"
    THEN [kind |-> "raise", outcome |-> Pending, final_price |-> NoPrice]
    ELSE LET auction_status == IF reply.auctionStatus = "missing" THEN "UNKNOWN"
                               ELSE reply.auctionStatus
         IN IF auction_status = "ENDED"
            THEN [kind |-> "ok",
                  outcome |-> IF IsHighBidder(reply) THEN Won ELSE Lost,
                  final_price |-> reply.value]
            ELSE [kind |-> "ok", outcome |-> Pending, final_price |-> NoPrice]

SettledAtEnd(t, end) == t - end >= 0

\* time_since_end < 30 -> continue
Settled(t, end) == t - end >= SettleSeconds * 1000

\* _check_auction_outcomes, first query, and of its rows those the loop
\* does not pass over
Callable1(t) ==
    {a \in Auctions : /\ status[a] = BidPlaced
                      /\ auction_end_time_utc[a] < t
                      /\ outcome[a] = Pending
                      /\ Settled(t, auction_end_time_utc[a])}

\* _check_auction_outcomes, second query on the rows fp and oc, and of its
\* rows those the loop does not pass over
Callable2(t, fp, oc) ==
    {a \in Auctions : /\ auction_end_time_utc[a] < t
                      /\ fp[a] = NoPrice
                      /\ oc[a] = Pending
                      /\ Settled(t, auction_end_time_utc[a])}

\* the history of a tick ends with the tick
TickOver(w) ==
    cancelledAtTick' = IF pc'[w] = "idle" THEN [cancelledAtTick EXCEPT ![w] = {}]
                       ELSE cancelledAtTick

\* the second pass of _check_auction_outcomes up to its first call of
\* get_final_price_from_trading_api; without a call the tick is over and
\* run_loop sleeps 500 ms
StartFinalPrices(w, t, fp, oc) ==
    LET c2 == Callable2(t, fp, oc) IN
    IF c2 = {}
    THEN /\ pc' = [pc EXCEPT ![w] = "idle"]
         /\ cur' = [cur EXCEPT ![w] = NoAuction]
         /\ queue' = [queue EXCEPT ![w] = {}]
         /\ sleeping' = [sleeping EXCEPT ![w] = TickSleepMs]
    ELSE /\ \E a \in c2 :
              /\ cur' = [cur EXCEPT ![w] = a]
              /\ queue' = [queue EXCEPT ![w] = c2 \ {a}]
         /\ pc' = [pc EXCEPT ![w] = "finalprice"]
         /\ UNCHANGED sleeping

\* run_loop: all auctions processed, commit and close the session; then
\* _check_auction_outcomes up to its first marketplace call
TickEnd(w) ==
    /\ pc[w] = "loop"
    /\ queue[w] = {}
    /\ snap' = [snap EXCEPT ![w] = ExpiredSession]
    /\ tnow' = [tnow EXCEPT ![w] =
                  IF Callable1(now) # {} \/ Callable2(now, final_price, outcome) # {}
                  THEN now ELSE 0]
    /\ LET c1 == Callable1(now) IN
       IF c1 # {}
       THEN /\ \E a \in c1 :
                 /\ cur' = [cur EXCEPT ![w] = a]
                 /\ queue' = [queue EXCEPT ![w] = c1 \ {a}]
            /\ pc' = [pc EXCEPT ![w] = "outcome"]
            /\ UNCHANGED sleeping
       ELSE StartFinalPrices(w, now, final_price, outcome)
    /\ TickOver(w)
    /\ UNCHANGED <<now, storeVars, attempt, cancelVars, bidHist, coalVars, settleVars, readVars, addVars, tokVars, authVars>>

\* _check_auction_outcomes: get_auction_outcome has answered for the
\* auction in hand; the commit, then the next auction of the first pass or
\* the second pass
OutcomeReturn(w, reply) ==
    /\ pc[w] = "outcome"
    /\ LET a == cur[w]
           data == get_auction_outcome(reply)
           ok == data.kind = "ok"
       IN
       /\ outcome' = IF ok /\ data.outcome # Pending
                     THEN [outcome EXCEPT ![a] = data.outcome] ELSE outcome
       /\ final_price' = IF ok /\ data.final_price # NoPrice
                         THEN [final_price EXCEPT ![a] = data.final_price]
                         ELSE final_price
       /\ caught' = IF ok THEN caught ELSE caught \cup {a}
       /\ IF queue[w] # {}
          THEN /\ \E b \in queue[w] :
                    /\ cur' = [cur EXCEPT ![w] = b]
                    /\ queue' = [queue EXCEPT ![w] = @ \ {b}]
               /\ UNCHANGED <<pc, sleeping>>
          ELSE StartFinalPrices(w, tnow[w], final_price', outcome')
       /\ tnow' = [tnow EXCEPT ![w] =
                     IF queue[w] # {} \/ Callable2(tnow[w], final_price', outcome') # {}
                     THEN @ ELSE 0]
    /\ TickOver(w)
    /\ UNCHANGED <<now, storeVars, snap, attempt, cancelVars, bidHist, coalVars, readVars, addVars, tokVars, authVars>>

\* _check_auction_outcomes: get_final_price_from_trading_api has answered
\* with a price, or with None or an exception (fp = NoPrice)
FinalPriceReturn(w, fp) ==
    /\ pc[w] = "finalprice"
    /\ final_price' = IF fp # NoPrice THEN [final_price EXCEPT ![cur[w]] = fp]
                      ELSE final_price
    /\ IF queue[w] # {}
       THEN /\ \E b \in queue[w] :
                 /\ cur' = [cur EXCEPT ![w] = b]
                 /\ queue' = [queue EXCEPT ![w] = @ \ {b}]
            /\ UNCHANGED <<pc, sleeping>>
       ELSE /\ pc' = [pc EXCEPT ![w] = "idle"]
            /\ cur' = [cur EXCEPT ![w] = NoAuction]
            /\ queue' = [queue EXCEPT ![w] = {}]
            /\ sleeping' = [sleeping EXCEPT ![w] = TickSleepMs]
    /\ tnow' = [tnow EXCEPT ![w] = IF queue[w] # {} THEN @ ELSE 0]
    /\ TickOver(w)
    /\ UNCHANGED <<now, storeVars, snap, attempt, cancelVars, bidHist,
                   coalVars, outcome, caught, readVars, addVars, tokVars, authVars>>

\* ------------------------------------------------- Worker: _process_auction

EndedStrictly(t, end) == t > end

\* now >= auction.auction_end_time_utc
Ended(t, end) == t >= end

\* _process_auction up to the call of _pre_bid_price_check or _execute_bid
ProcessAuction(w, a) ==
    /\ pc[w] = "loop"
    /\ a \in queue[w]
    /\ LET st == Loaded(w, a)
           end == auction_end_time_utc[a]
           bid_execution_time == end - BID_OFFSET_SECONDS * 1000
           pre_check_time == end - PRE_BID_CHECK_SECONDS * 1000
           branch ==
               IF st \in TerminalStatus THEN "return"
               ELSE IF st = Executing
                    THEN (IF Ended(now, end) THEN "crashed" ELSE "return")
               ELSE IF Ended(now, end) THEN "ended"
               ELSE IF InWindow(pre_check_time - now) THEN "precheck"
               ELSE IF InWindow(bid_execution_time - now) THEN "execute"
               ELSE "return"
           cleanup == branch \in {"crashed", "ended"}
       IN
       /\ status' = IF cleanup THEN [status EXCEPT ![a] = Failed] ELSE status
       /\ bid_attempts' =
            IF cleanup /\ ~HasAttempt(a)
            THEN Append(bid_attempts,
                        BidAttempt(a, FailedResult,
                                   IF branch = "crashed" THEN MsgCrashed
                                   ELSE MsgEndedUnprocessed))
            ELSE bid_attempts
       /\ snap' = [snap EXCEPT ![w] =
                     IF cleanup THEN ExpiredSession
                     ELSE IF branch = "return" THEN [@ EXCEPT ![a] = Expired]
                     ELSE [@ EXCEPT ![a] = st]]
       /\ pc' = [pc EXCEPT ![w] =
                   IF branch \in {"precheck", "execute"} THEN branch ELSE "loop"]
       /\ cur' = [cur EXCEPT ![w] =
                   IF branch \in {"precheck", "execute"} THEN a ELSE NoAuction]
       /\ tnow' = [tnow EXCEPT ![w] = IF branch = "precheck" THEN now ELSE 0]
       /\ queue' = [queue EXCEPT ![w] = @ \ {a}]
    /\ UNCHANGED <<now, auction_end_time_utc, current_price, last_price_refresh_utc,
                   skip_reason, attempt, sleeping, cancelVars, histVars, coalVars, settleVars, readVars, addVars, tokVars, authVars>>

\* _pre_bid_price_check once get_auction_details has answered (fetched, with
\* current_price r) or raised (not fetched), and the rest of _process_auction
\* behind it
ExceedsMaxOrEqual(price, a) == price >= max_bid[a]

\* current_price > auction.max_bid
ExceedsMax(price, a) == price > max_bid[a]

PreCheckReturn(w, fetched, r) ==
    /\ pc[w] = "precheck"
    /\ LET a == cur[w]
           skip == fetched /\ ExceedsMax(r, a)
           end == auction_end_time_utc[a]
           bid_execution_time == end - BID_OFFSET_SECONDS * 1000
           stillScheduled == status[a] = Scheduled
           goOn == ~skip /\ stillScheduled /\ InWindow(bid_execution_time - tnow[w])
       IN
       /\ current_price' = IF fetched THEN [current_price EXCEPT ![a] = r]
                           ELSE current_price
       /\ last_price_refresh_utc' =
            IF fetched THEN [last_price_refresh_utc EXCEPT ![a] = now]
            ELSE last_price_refresh_utc
       /\ status' = IF skip THEN [status EXCEPT ![a] = Skipped] ELSE status
       /\ skip_reason' = IF skip THEN [skip_reason EXCEPT ![a] = MsgSkip]
                         ELSE skip_reason
       /\ snap' = [snap EXCEPT ![w] =
                     IF goOn THEN [ExpiredSession EXCEPT ![a] = status[a]]
                     ELSE IF fetched THEN ExpiredSession
                     ELSE [@ EXCEPT ![a] = Expired]]
       /\ pc' = [pc EXCEPT ![w] = IF goOn THEN "execute" ELSE "loop"]
       /\ cur' = [cur EXCEPT ![w] = IF goOn THEN a ELSE NoAuction]
    /\ tnow' = [tnow EXCEPT ![w] = 0]
    /\ UNCHANGED <<now, auction_end_time_utc, bid_attempts, queue, attempt, sleeping,
                   cancelVars, histVars, coalVars, settleVars, readVars, addVars, tokVars, authVars>>

\* the commit that ends _execute_bid: UPDATE auctions SET status and INSERT
\* INTO bid_attempts in one transaction.  When the INSERT hits the primary
\* key the transaction is rolled back and the exception leaves _execute_bid;
\* run_loop logs it, rolls back and goes on with the next auction.
FinishExecute(w, a, st, res, msg) ==
    /\ IF PrimaryKeyFree(bid_attempts, a)
       THEN /\ status' = [status EXCEPT ![a] = st]
            /\ bid_attempts' = Append(bid_attempts, BidAttempt(a, res, msg))
       ELSE UNCHANGED <<status, bid_attempts>>
    /\ pc' = [pc EXCEPT ![w] = "loop"]
    /\ cur' = [cur EXCEPT ![w] = NoAuction]
    /\ attempt' = [attempt EXCEPT ![w] = 0]
    /\ snap' = [snap EXCEPT ![w] = ExpiredSession]

\* _execute_bid: the atomic claim Scheduled -> Executing and its commit
Claim(w) ==
    /\ pc[w] = "execute"
    /\ LET a == cur[w]
           rows_updated == ClaimRows(a)
       IN
       /\ status' = IF rows_updated = 0 THEN status
                    ELSE [status EXCEPT ![a] = Executing]
       /\ claims' = [claims EXCEPT ![a] = @ + rows_updated]
       /\ lostClaims' = [lostClaims EXCEPT ![a] = @ \/ rows_updated = 0]
       /\ pc' = [pc EXCEPT ![w] = IF rows_updated = 0 THEN "loop" ELSE "claimed"]
       /\ cur' = [cur EXCEPT ![w] = IF rows_updated = 0 THEN NoAuction ELSE a]
    /\ snap' = [snap EXCEPT ![w] = ExpiredSession]
    /\ UNCHANGED <<now, auction_end_time_utc, current_price, last_price_refresh_utc,
                   skip_reason, bid_attempts, queue, tnow, attempt, sleeping,
                   cancelVars, instances, bidCalls, bidAmounts, accepted, cancelledAtTick, coalVars,
                   settleVars, readVars, addVars, tokVars, authVars>>

\* _execute_bid: db.refresh(auction) and the check that the auction has not
\* ended; the token refresh in front of the retry loop only takes time
AfterClaim(w) ==
    /\ pc[w] = "claimed"
    /\ LET a == cur[w] IN
       IF now >= auction_end_time_utc[a]
       THEN /\ FinishExecute(w, a, Failed, FailedResult, MsgEndedBeforeBid)
            /\ UNCHANGED <<now, auction_end_time_utc, current_price,
                           last_price_refresh_utc, skip_reason, queue, tnow,
                           sleeping, cancelVars, histVars, coalVars, settleVars, readVars, addVars, tokVars, authVars>>
       ELSE /\ pc' = [pc EXCEPT ![w] = "attempt"]
            /\ attempt' = [attempt EXCEPT ![w] = 0]
            /\ UNCHANGED <<now, storeVars, queue, snap, cur, tnow, sleeping,
                           cancelVars, histVars, coalVars, settleVars, readVars, addVars, tokVars, authVars>>

bid_amount_above_price(a) == IF current_price[a] + 1 < max_bid[a] THEN current_price[a] + 1 ELSE max_bid[a]

\* bid_amount = auction.max_bid
bid_amount(a) == max_bid[a]

\* the head of one iteration of the retry loop: the watchdog, then the call
\* of place_bid
Attempt(w) ==
    /\ pc[w] = "attempt"
    /\ sleeping[w] = 0
    /\ LET a == cur[w] IN
       IF OutOfTime(now, auction_end_time_utc[a])
       THEN /\ FinishExecute(w, a, Failed, FailedResult, MsgOutOfTime)
            /\ UNCHANGED <<now, auction_end_time_utc, current_price,
                           last_price_refresh_utc, skip_reason, queue, tnow,
                           sleeping, cancelVars, histVars, coalVars, settleVars, readVars, addVars, tokVars, authVars>>
       ELSE /\ pc' = [pc EXCEPT ![w] = "bidding"]
            /\ bidCalls' = [bidCalls EXCEPT ![a] = @ + 1]
            /\ bidAmounts' = [bidAmounts EXCEPT ![a] = Append(@, bid_amount(a))]
            /\ UNCHANGED <<now, storeVars, queue, snap, cur, tnow, attempt,
                           sleeping, cancelVars, instances, claims, lostClaims, accepted,
                           cancelledAtTick, coalVars, settleVars, readVars, addVars, tokVars, authVars>>

\* time.sleep(delays[attempt] if attempt < len(delays) else delays[-1])
RetryDelay(att) == IF att < Len(delays) THEN delays[att + 1] ELSE delays[Len(delays)]

TimedOutNever(o) == FALSE

\* except requests.exceptions.Timeout
TimedOut(o) == o = "timeout"

LastAttemptThird(att) == att = max_attempts - 2

\* the last iteration of `for attempt in range(max_attempts)`
LastAttempt(att) == att = max_attempts - 1

\* place_bid has returned, timed out or raised: the rest of the iteration
BidReturn(w, o) ==
    /\ pc[w] = "bidding"
    /\ LET a == cur[w]
           att == attempt[w]
       IN
       IF o = "ok"
       THEN /\ FinishExecute(w, a, BidPlaced, Success, NoMsg)
            /\ UNCHANGED sleeping
       ELSE IF TimedOut(o) /\ LastAttempt(att)
       THEN /\ FinishExecute(w, a, Failed, FailedResult, MsgExhausted)
            /\ UNCHANGED sleeping
       ELSE IF TimedOut(o) \/ is_retryable(o, att)
       THEN /\ sleeping' = [sleeping EXCEPT ![w] = RetryDelay(att)]
            /\ attempt' = [attempt EXCEPT ![w] = att + 1]
            /\ pc' = [pc EXCEPT ![w] = "attempt"]
            /\ UNCHANGED <<status, bid_attempts, cur, snap>>
       ELSE /\ FinishExecute(w, a, Failed, FailedResult, o)
            /\ UNCHANGED sleeping
    /\ accepted' = IF o = "ok" THEN accepted \cup {cur[w]} ELSE accepted
    /\ UNCHANGED <<now, auction_end_time_utc, current_price, last_price_refresh_utc,
                   skip_reason, queue, tnow, cancelVars, instances, claims, lostClaims,
                   bidCalls, bidAmounts, cancelledAtTick, coalVars, settleVars, readVars,
                   addVars, tokVars, authVars>>

\* the worker process dies and is started again: its session is gone, the
\* Store keeps what was committed
Crash(w) ==
    /\ pc[w] # "idle"
    /\ pc' = [pc EXCEPT ![w] = "idle"]
    /\ queue' = [queue EXCEPT ![w] = {}]
    /\ snap' = [snap EXCEPT ![w] = ExpiredSession]
    /\ cur' = [cur EXCEPT ![w] = NoAuction]
    /\ tnow' = [tnow EXCEPT ![w] = 0]
    /\ attempt' = [attempt EXCEPT ![w] = 0]
    /\ sleeping' = [sleeping EXCEPT ![w] = 0]
    /\ TickOver(w)
    /\ UNCHANGED <<now, storeVars, cancelVars, bidHist, coalVars, settleVars, readVars, addVars, tokVars, authVars>>

\* _execute_bid: place_bid has returned success and the worker process dies
\* before `auction.status = BidPlaced ... db.commit()` is committed: nothing
\* of the success reaches the Store, the row stays Executing
CrashBeforeCommit(w) ==
    /\ pc[w] = "bidding"
    /\ accepted' = accepted \cup {cur[w]}
    /\ pc' = [pc EXCEPT ![w] = "idle"]
    /\ queue' = [queue EXCEPT ![w] = {}]
    /\ snap' = [snap EXCEPT ![w] = ExpiredSession]
    /\ cur' = [cur EXCEPT ![w] = NoAuction]
    /\ tnow' = [tnow EXCEPT ![w] = 0]
    /\ attempt' = [attempt EXCEPT ![w] = 0]
    /\ sleeping' = [sleeping EXCEPT ![w] = 0]
    /\ TickOver(w)
    /\ UNCHANGED <<now, storeVars, cancelVars, instances, claims, lostClaims, bidCalls,
                   bidAmounts, coalVars, settleVars, readVars, addVars, tokVars, authVars>>

\* ------------------------------------------------------------------ Cancel

\* remove_sniper: load the row and check its status; a status other than
\* Scheduled is answered with HTTP 400 and nothing is written
CancelRead(a) ==
    /\ a \notin cancelReq
    /\ cancelReq' = IF Cancellable(status[a]) THEN cancelReq \cup {a} ELSE cancelReq
    /\ UNCHANGED <<now, storeVars, workerVars, histVars, coalVars, settleVars, readVars, addVars, tokVars, authVars>>

\* remove_sniper: auction.status = Cancelled; db.commit(), which is
\* UPDATE auctions SET status = 'Cancelled' WHERE id = a
CancelWrite(a) ==
    /\ a \in cancelReq
    /\ status' = [status EXCEPT ![a] = Cancelled]
    /\ cancelReq' = cancelReq \ {a}
    /\ UNCHANGED <<now, auction_end_time_utc, current_price, last_price_refresh_utc,
                   skip_reason, bid_attempts, workerVars, histVars, coalVars, settleVars, readVars, addVars, tokVars, authVars>>

\* --------------------------------------------- GET: refresh-on-read
\* One request at a time.  get_or_execute is entered by one caller, which
\* therefore runs the fetch itself and gets its value or its exception.

\* get_status, list_snipers
ReadOps == {"status", "list"}

NoRead == [pc |-> "idle", a |-> NoAuction, price |-> 0, last |-> 0, code |-> "none"]

\* get_auction_details as _refresh_auction_price sees it through the
\* coalescer: the details, an HTTPError with status 429, 5xx or another
\* 4xx, or a timeout
RefreshErrors == {"429", "5xx", "4xx", "timeout"}
RefreshReplies ==
    [kind : {"ok"}, price : {125}] \cup [kind : RefreshErrors, price : {0}]

terminal_states_fixed(st, end, t) == {Cancelled, Failed, Skipped}

\* _should_refresh_price: the statuses that are not refreshed; BidPlaced is
\* one of them once the auction has ended
terminal_states(st, end, t) ==
    {Cancelled, Failed, Skipped}
    \cup (IF st = BidPlaced /\ t >= end THEN {BidPlaced} ELSE {})

TtlExpiredAtSixty(t, last) == t - last >= RefreshTtlSeconds * 1000

\* (datetime.utcnow() - auction.last_price_refresh_utc).total_seconds() > 60
TtlExpired(t, last) == t - last > RefreshTtlSeconds * 1000

\* _should_refresh_price on a row with status st, end time end and
\* last_price_refresh_utc last, at time t; last is never None, add_sniper
\* sets it
should_refresh_price(st, end, last, t) ==
    IF st \in terminal_states(st, end, t) THEN FALSE
    ELSE TtlExpired(t, last)

StoredUnlessError(reply) == reply.kind \in {"ok", "429"}

\* _refresh_auction_price: the assignments and the commit are reached when
\* get_or_execute has returned the details
Stored(reply) == reply.kind = "ok"

\* get_status, list_snipers: the row is loaded and _should_refresh_price
\* decides; a fresh row is answered as it is, for a stale one the fetch
\* is started.  The two endpoints differ in how the response is built after
\* the fetch, see RefreshReturn.
ReadStart(a) ==
    /\ read.pc = "idle"
    /\ LET stale == should_refresh_price(status[a], auction_end_time_utc[a],
                                         last_price_refresh_utc[a], now)
       IN read' = [pc |-> IF stale THEN "fetch" ELSE "fresh",
                   a |-> a, price |-> current_price[a],
                   last |-> IF stale THEN last_price_refresh_utc[a] ELSE 0,
                   code |-> IF stale THEN "none" ELSE "200"]
    /\ UNCHANGED <<now, storeVars, workerVars, cancelVars, histVars, coalVars,
                   settleVars, limitedAt, addVars, tokVars, authVars>>

\* _refresh_auction_price raises HTTPException(500) for every error of the
\* fetch but the 429
Raised(reply) == reply.kind \notin {"ok", "429"}

CaughtByListOnly(op) == op = "list"

\* get_status wraps the refresh in try / except Exception, list_snipers
\* does so in refresh_auction_safe and again around future.result()
Caught(op) == op \in {"status", "list"}

\* what the endpoint op answers after the fetch: after a commit the row as
\* stored; without one get_status still holds the row it loaded, while
\* list_snipers expires its session and loads the rows again
Response(op, committed, loaded, stored) ==
    IF committed \/ op = "list" THEN stored ELSE loaded

RefreshReturnWholeRow(op, reply) ==
    /\ read.pc = "fetch"
    /\ LET a == read.a IN
       /\ current_price' = IF Stored(reply) THEN [current_price EXCEPT ![a] = reply.price]
                           ELSE current_price
       /\ last_price_refresh_utc' =
            IF Stored(reply) THEN [last_price_refresh_utc EXCEPT ![a] = now]
            ELSE last_price_refresh_utc
       /\ read' = [read EXCEPT !.pc = "done", !.last = 0,
                               !.price = Response(op, Stored(reply), read.price,
                                                  current_price'[a]),
                               !.code = IF Raised(reply) /\ ~Caught(op) THEN "500"
                                        ELSE "200"]
       /\ limitedAt' = [limitedAt EXCEPT ![a] =
                          IF reply.kind = "429" THEN {read.last}
                          ELSE IF Stored(reply) THEN {} ELSE @]
    /\ status' = IF Stored(reply) THEN [status EXCEPT ![read.a] = Scheduled] ELSE status
    /\ UNCHANGED <<now, auction_end_time_utc, skip_reason, bid_attempts,
                   workerVars, cancelVars, histVars, coalVars, settleVars, addVars, tokVars, authVars>>

\* _refresh_auction_price after the fetch, and the response of endpoint op.
\* The details carry the end time the row was created from.  An error other
\* than the 429 is raised as HTTPException, which get_status and
\* refresh_auction_safe catch and log.
RefreshReturn(op, reply) ==
    /\ read.pc = "fetch"
    /\ LET a == read.a IN
       /\ current_price' = IF Stored(reply) THEN [current_price EXCEPT ![a] = reply.price]
                           ELSE current_price
       /\ last_price_refresh_utc' =
            IF Stored(reply) THEN [last_price_refresh_utc EXCEPT ![a] = now]
            ELSE last_price_refresh_utc
       /\ read' = [read EXCEPT !.pc = "done", !.last = 0,
                               !.price = Response(op, Stored(reply), read.price,
                                                  current_price'[a]),
                               !.code = IF Raised(reply) /\ ~Caught(op) THEN "500"
                                        ELSE "200"]
       /\ limitedAt' = [limitedAt EXCEPT ![a] =
                          IF reply.kind = "429" THEN {read.last}
                          ELSE IF Stored(reply) THEN {} ELSE @]
    /\ UNCHANGED <<now, status, auction_end_time_utc, skip_reason, bid_attempts,
                   workerVars, cancelVars, histVars, coalVars, settleVars, addVars, tokVars, authVars>>

\* the response has gone to the client
ReadDone ==
    /\ read.pc \in {"fresh", "done"}
    /\ read' = NoRead
    /\ UNCHANGED <<now, storeVars, workerVars, cancelVars, histVars, coalVars,
                   settleVars, limitedAt, addVars, tokVars, authVars>>

\* ------------------------------------------- POST /sniper/add, /sniper/bulk
\* The auctions table as rows in the order of their creation; a row's id is
\* its position.  Every db.query and every db.commit is one step.

Adders == {1, 2}
Listings == {"L1", "L2"}
MaxBids == {150}

\* get_auction_details for a new listing: the details (the end time at or
\* after now, the price below or at the max bid), a ValueError (no token,
\* not an auction) or a RequestException
AddReplies ==
    [kind : {"ok"}, end : {0, 61000}, price : {100, 150}]
    \cup [kind : {"ValueError", "RequestException"}, end : {0}, price : {0}]

MsgExists == "Auction already exists"
MsgFetchFailed == "Failed to fetch auction from eBay"
MsgHasEnded == "Auction has ended"
MsgBidTooLow == "Max bid must be greater than current price"

\* Auction(..., status = Scheduled, outcome = Pending)
NewAuction(listing, mb, reply) ==
    [listing_number |-> listing, max_bid |-> mb, status |-> Scheduled,
     outcome |-> Pending, auction_end_time_utc |-> reply.end,
     current_price |-> reply.price]

ExistingNonTerminal(rows, listing) ==
    \E i \in 1..Len(rows) : /\ rows[i].listing_number = listing
                            /\ rows[i].status \in {Scheduled, Executing}

\* db.query(Auction).filter(Auction.listing_number == listing).first()
Existing(rows, listing) ==
    \E i \in 1..Len(rows) : rows[i].listing_number = listing

NoAdd == [pc |-> "none", listing_number |-> "none", max_bid |-> 0,
          code |-> "none", detail |-> NoMsg, id |-> 0]

\* add_sniper: the check for an existing auction
AddCheck(r) ==
    /\ areq[r].pc = "start"
    /\ areq' = [areq EXCEPT ![r] =
                  IF Existing(table, areq[r].listing_number)
                  THEN [@ EXCEPT !.pc = "done", !.code = "400", !.detail = MsgExists]
                  ELSE [@ EXCEPT !.pc = "fetch"]]
    /\ UNCHANGED <<now, storeVars, workerVars, cancelVars, histVars, coalVars,
                   settleVars, readVars, table, bulk, tokVars, authVars>>

\* add_sniper: get_auction_details has answered; on details the row is
\* created and committed
AddReturn(r, reply) ==
    /\ areq[r].pc = "fetch"
    /\ IF reply.kind = "ok"
       THEN /\ table' = Append(table, NewAuction(areq[r].listing_number,
                                                 areq[r].max_bid, reply))
            /\ areq' = [areq EXCEPT ![r] = [@ EXCEPT !.pc = "done", !.code = "200",
                                                     !.id = Len(table) + 1]]
       ELSE /\ areq' = [areq EXCEPT ![r] = [@ EXCEPT !.pc = "done", !.code = "400",
                                                     !.detail = MsgFetchFailed]]
            /\ UNCHANGED table
    /\ UNCHANGED <<now, storeVars, workerVars, cancelVars, histVars, coalVars,
                   settleVars, readVars, bulk, tokVars, authVars>>

\* BulkAddItemResult
ItemResult(item, success, id, msg) ==
    [listing_number |-> item.listing_number, success |-> success,
     auction_id |-> id, error_message |-> msg]

NoBulk == [pc |-> "none", i |-> 0, items |-> <<>>, results |-> <<>>]

BulkAdvanceUntilFailure(b, res) ==
    [b EXCEPT !.results = Append(@, res),
              !.i = @ + 1,
              !.pc = IF b.i = Len(b.items) \/ ~res.success THEN "done" ELSE "item"]

\* bulk_add_snipers: the loop moves to the next item, or returns
BulkAdvance(b, res) ==
    [b EXCEPT !.results = Append(@, res),
              !.i = @ + 1,
              !.pc = IF b.i = Len(b.items) THEN "done" ELSE "item"]

\* bulk_add_snipers: the check for an existing auction of the item in hand
BulkCheck ==
    /\ bulk.pc = "item"
    /\ LET item == bulk.items[bulk.i] IN
       bulk' = IF Existing(table, item.listing_number)
               THEN BulkAdvance(bulk, ItemResult(item, FALSE, 0, MsgExists))
               ELSE [bulk EXCEPT !.pc = "fetch"]
    /\ UNCHANGED <<now, storeVars, workerVars, cancelVars, histVars, coalVars,
                   settleVars, readVars, table, areq, tokVars, authVars>>


\* if auction_end_time <= now
HasEnded(end, t) == end <= t


\* if item.max_bid <= current_price
BidTooLow(mb, price) == mb <= price

\* bulk_add_snipers: get_auction_details has answered for the item in hand;
\* the two validations, then the row is created and committed
BulkReturn(reply) ==
    /\ bulk.pc = "fetch"
    /\ LET item == bulk.items[bulk.i]
           msg == IF reply.kind # "ok" THEN MsgFetchFailed
                  ELSE IF HasEnded(reply.end, now) THEN MsgHasEnded
                  ELSE IF BidTooLow(item.max_bid, reply.price) THEN MsgBidTooLow
                  ELSE NoMsg
       IN IF msg = NoMsg
          THEN /\ table' = Append(table, NewAuction(item.listing_number,
                                                    item.max_bid, reply))
               /\ bulk' = BulkAdvance(bulk, ItemResult(item, TRUE, Len(table) + 1, NoMsg))
          ELSE /\ bulk' = BulkAdvance(bulk, ItemResult(item, FALSE, 0, msg))
               /\ UNCHANGED table
    /\ UNCHANGED <<now, storeVars, workerVars, cancelVars, histVars, coalVars,
                   settleVars, readVars, areq, tokVars, authVars>>

\* remove_sniper on a row of the table
Remove(i) ==
    /\ i \in 1..Len(table)
    /\ Cancellable(table[i].status)
    /\ table' = [table EXCEPT ![i].status = Cancelled]
    /\ UNCHANGED <<now, storeVars, workerVars, cancelVars, histVars, coalVars,
                   settleVars, readVars, areq, bulk, tokVars, authVars>>

\* ------------------------------------------------- eBayClient: OAuth tokens
\* The API's handlers share one client (api.py:24) and run on the server's
\* thread pool; list_snipers and bulk_add_snipers call get_auction_details
\* for several listings at a time.  app_id and cert_id are set.

Callers == {1, 2}
TokenKinds == {"app", "user"}

\* token_data.get("expires_in", 7200)
ExpiresIn == 7200
\* timedelta(seconds=expires_in - 300): refresh 5 min early
RefreshEarly == 300

\* oauth_*_token_expires_at = None
NoExpiry == <<>>

\* datetime.utcnow() + timedelta(seconds=expires_in - 300)
ExpiryFrom(t) == <<t + (ExpiresIn - RefreshEarly) * 1000>>

\* self.oauth_*_token_expires_at and datetime.utcnow() >= self.oauth_*_token_expires_at
Due(exp, t) == exp # NoExpiry /\ t >= exp[1]

NoCall == [pc |-> "idle", kind |-> "none", raised |-> "none"]

\* the refresh requests (POST to the token endpoint) in flight for a kind
InFlight(kind) ==
    {c \in Callers : treq[c].pc \in {"ensure_post", "retry_post"} /\ treq[c].kind = kind}

\* _ensure_token_valid(use_user_token=False), up to the POST of a refresh
EnsureValid(c) ==
    /\ treq[c].pc = "idle"
    /\ treq' = [treq EXCEPT ![c] =
          IF oauth.app_token
          THEN IF Due(oauth.app_expires_at, now)
               THEN [pc |-> "ensure_post", kind |-> "app", raised |-> "none"]
               ELSE [pc |-> "call", kind |-> "none", raised |-> "none"]
          ELSE IF ~oauth.user_token
               THEN [pc |-> "done", kind |-> "none", raised |-> "ValueError"]
               ELSE IF Due(oauth.user_expires_at, now)
                    THEN IF oauth.refresh_token
                         THEN [pc |-> "ensure_post", kind |-> "user", raised |-> "none"]
                         ELSE [pc |-> "done", kind |-> "none", raised |-> "ValueError"]
                    ELSE [pc |-> "call", kind |-> "none", raised |-> "none"]]
    /\ UNCHANGED <<now, storeVars, workerVars, cancelVars, histVars, coalVars,
                   settleVars, readVars, addVars, oauth, authVars>>

\* refresh_app_token / refresh_user_token: the token endpoint has answered
TokenRefreshed(kind, ok) ==
    IF ~ok THEN oauth
    ELSE IF kind = "app"
         THEN [oauth EXCEPT !.app_token = TRUE, !.app_expires_at = ExpiryFrom(now)]
         ELSE [oauth EXCEPT !.user_token = TRUE, !.user_expires_at = ExpiryFrom(now)]

\* _ensure_token_valid: the refresh it started returns
EnsureReturn(c, ok) ==
    /\ treq[c].pc = "ensure_post"
    /\ oauth' = TokenRefreshed(treq[c].kind, ok)
    /\ treq' = [treq EXCEPT ![c] =
          IF ok \/ treq[c].kind = "app"
          THEN [pc |-> "call", kind |-> "none", raised |-> "none"]
          ELSE [pc |-> "done", kind |-> "none", raised |-> "ValueError"]]
    /\ UNCHANGED <<now, storeVars, workerVars, cancelVars, histVars, coalVars,
                   settleVars, readVars, addVars, authVars>>

CallReplies == {"200", "401", "500"}

\* get_auction_details: the Browse API answers the request; a 401 starts
\* refresh_app_token
CallReturn(c, code) ==
    /\ treq[c].pc = "call"
    /\ treq' = [treq EXCEPT ![c] =
          IF code = "401"
          THEN [pc |-> "retry_post", kind |-> "app", raised |-> "none"]
          ELSE [pc |-> "done", kind |-> "none",
                raised |-> IF code = "200" THEN "none" ELSE "HTTPError"]]
    /\ UNCHANGED <<now, storeVars, workerVars, cancelVars, histVars, coalVars,
                   settleVars, readVars, addVars, oauth, authVars>>

\* if self.refresh_app_token() or (not self.oauth_app_token and self.refresh_user_token())
RetryReturn(c, ok) ==
    /\ treq[c].pc = "retry_post"
    /\ oauth' = TokenRefreshed(treq[c].kind, ok)
    /\ treq' = [treq EXCEPT ![c] =
          IF ok
          THEN [pc |-> "retry_call", kind |-> "none", raised |-> "none"]
          ELSE IF treq[c].kind = "app" /\ ~oauth.app_token /\ oauth.refresh_token
               THEN [pc |-> "retry_post", kind |-> "user", raised |-> "none"]
               ELSE [pc |-> "done", kind |-> "none", raised |-> "HTTPError"]]
    /\ UNCHANGED <<now, storeVars, workerVars, cancelVars, histVars, coalVars,
                   settleVars, readVars, addVars, authVars>>

\* the request repeated with the new token is answered
RetryCallReturn(c, code) ==
    /\ treq[c].pc = "retry_call"
    /\ treq' = [treq EXCEPT ![c] =
          [pc |-> "done", kind |-> "none",
           raised |-> IF code = "200" THEN "none" ELSE "HTTPError"]]
    /\ UNCHANGED <<now, storeVars, workerVars, cancelVars, histVars, coalVars,
                   settleVars, readVars, addVars, oauth, authVars>>

\* get_auction_details has returned or raised; the thread takes another call
CallDone(c) ==
    /\ treq[c].pc = "done"
    /\ treq' = [treq EXCEPT ![c] = NoCall]
    /\ UNCHANGED <<now, storeVars, workerVars, cancelVars, histVars, coalVars,
                   settleVars, readVars, addVars, oauth, authVars>>

\* the length of the run in ms: two lifetimes of a token
MaxTokenTime == 13800000

\* time passes: as long as a refreshed token is taken as valid
TokenAdvance ==
    /\ now < MaxTokenTime
    /\ now' = now + (ExpiresIn - RefreshEarly) * 1000
    /\ UNCHANGED <<storeVars, workerVars, cancelVars, histVars, coalVars,
                   settleVars, readVars, addVars, tokVars, authVars>>

\* ------------------------------------------------------ API: verify_token
\* An Authorization header is a scheme and the words that follow it, each
\* after one space; a word is a token.  A header that was not sent, and the
\* empty one, have the scheme "none".

\* "exp": datetime.utcnow() + timedelta(days=30)
TokenDays == 30
\* the same in seconds, the unit of the exp claim
TokenLife == TokenDays * 24 * 3600

\* jwt.encode({"sub": ..., "exp": ...}, SECRET_KEY, algorithm="HS256")
Jwt(sig, exp) == [sig |-> sig, exp |-> exp]
\* a token auth() issued at time 0, one that expires after 60 s, one signed
\* with another key, and a word that is no JWT (the empty word of "Bearer ")
GoodToken == Jwt("HS256", TokenLife)
ShortToken == Jwt("HS256", RefreshTtlSeconds)
ForgedToken == Jwt("other", TokenLife)
NoJwt == Jwt("none", 0)

Header(scheme, words) == [scheme |-> scheme, words |-> words]
Headers ==
    {Header("none", <<>>), Header("Basic", <<GoodToken>>), Header("Bearer", <<NoJwt>>),
     Header("Bearer", <<GoodToken>>), Header("Bearer", <<ShortToken>>),
     Header("Bearer", <<ForgedToken>>)}

\* authorization.startswith("Bearer ")
StartsWithBearer(h) == h.scheme = "Bearer" /\ Len(h.words) >= 1

DecodesUnverified(token, t) == token.sig # "none" /\ token.exp > t \div 1000

\* jwt.decode(token, SECRET_KEY, algorithms=["HS256"]) returns the payload;
\* otherwise it raises an InvalidTokenError
Decodes(token, t) == token.sig = "HS256" /\ token.exp > t \div 1000

\* verify_token: the user name, or HTTPException(401)
verify_token(h, t) ==
    IF h.scheme = "none" \/ ~StartsWithBearer(h) THEN "401"
    ELSE IF Decodes(h.words[1], t) THEN "sub" ELSE "401"

Operations == {"add", "bulk", "list", "status", "cancel", "logs"}

DependsOnlyForWrites(op) == op \in {"add", "bulk", "cancel"}

\* username: str = Depends(verify_token) in the signature of the endpoint
Depends(op) == op \in Operations

NoResponse == resp = [op |-> "none", code |-> "none", body |-> <<>>]

\* add_sniper is called with the request
AddStart(r, listing, mb) ==
    /\ areq[r].pc = "none"
    /\ areq' = [areq EXCEPT ![r] = [NoAdd EXCEPT !.pc = "start", !.listing_number = listing,
                                                 !.max_bid = mb]]
    /\ UNCHANGED <<now, storeVars, workerVars, cancelVars, histVars, coalVars,
                   settleVars, readVars, table, bulk, tokVars, authVars>>

\* bulk_add_snipers is called with the request
BulkStart(items) ==
    /\ bulk.pc = "none"
    /\ bulk' = IF Len(items) = 0
               THEN [pc |-> "done", i |-> 1, items |-> items, results |-> <<>>]
               ELSE [pc |-> "item", i |-> 1, items |-> items, results |-> <<>>]
    /\ UNCHANGED <<now, storeVars, workerVars, cancelVars, histVars, coalVars,
                   settleVars, readVars, table, areq, tokVars, authVars>>

\* get_logs: the first BidAttempt of the auction, or None
get_logs(a) ==
    /\ resp' = [op |-> "logs", code |-> "200",
                body |-> IF Len(AttemptsOf(a)) = 0 THEN <<>> ELSE <<AttemptsOf(a)[1]>>]
    /\ UNCHANGED <<now, storeVars, workerVars, cancelVars, histVars, coalVars,
                   settleVars, readVars, addVars, tokVars>>

\* the requests and the marketplace's answers of this part
AuthAdders == {1}
AuthBulkInputs == {<<[listing_number |-> "L2", max_bid |-> 150]>>}
AuthAddReplies == {reply \in AddReplies : reply.kind = "ValueError" \/
                                           (reply.price = 100 /\ reply.end > 0)}
AuthRefreshReplies == {reply \in RefreshReplies : reply.kind \in {"ok", "5xx"}}

\* the endpoint's function, called once its dependencies are resolved
Endpoint(op) ==
    \/ op = "add" /\ \E r \in AuthAdders, mb \in MaxBids : AddStart(r, "L1", mb)
    \/ op = "bulk" /\ \E items \in AuthBulkInputs : BulkStart(items)
    \/ op \in {"list", "status"} /\ \E a \in Auctions : ReadStart(a)
    \/ op = "cancel" /\ \E a \in Auctions : CancelRead(a)
    \/ op = "logs" /\ \E a \in Auctions : get_logs(a)

\* a request for op arrives with header h: FastAPI resolves the endpoint's
\* dependencies and answers 401 when verify_token raises
Call(op, h) ==
    \/ /\ Depends(op)
       /\ verify_token(h, now) = "401"
       /\ resp' = [op |-> op, code |-> "401", body |-> <<>>]
       /\ UNCHANGED <<now, storeVars, workerVars, cancelVars, histVars, coalVars,
                      settleVars, readVars, addVars, tokVars>>
    \/ /\ Depends(op) => verify_token(h, now) # "401"
       /\ Endpoint(op)

\* time passes for the API alone, which looks at the clock for the 60 s of
\* the refresh and for the expiry of a token: half a minute and a quantum
AuthAdvance ==
    LET d == RefreshTtlSeconds * 500 + Quantum IN
    /\ now + d <= MaxTime
    /\ now' = now + d
    /\ UNCHANGED <<storeVars, workerVars, cancelVars, histVars, coalVars,
                   settleVars, readVars, addVars, tokVars, authVars>>

\* auth: any user name and password get a token
Authenticate ==
    /\ resp' = [op |-> "auth", code |-> "200", body |-> <<Jwt("HS256", now \div 1000 + TokenLife)>>]
    /\ UNCHANGED <<now, storeVars, workerVars, cancelVars, histVars, coalVars,
                   settleVars, readVars, addVars, tokVars>>

\* -------------------------------------------------------- RequestCoalescer
\* One key.  Every `with self._lock` block is one step.

None == "None"
Value(v) == [kind |-> "value", val |-> v]
Error(e) == [kind |-> "error", val |-> e]
NoOutcome == [kind |-> "none", val |-> None]

\* what one invocation of the producer can do: return a value (None is one)
\* or raise
ProducerOutcomes == {Value(None), Value("v1"), Value("v2"), Error("e1"), Error("e2")}

\* _requests[key] = (result, error, done_event); evt = 0: key not in _requests
NoSlot == [result |-> None, error |-> None, evt |-> 0]
KeyPresent == requests.evt # 0

Invoke(t, out) == Append(produced, [by |-> t, out |-> out])

\* get_or_execute, first locked block: create the slot or pick up its event
Enter(t) ==
    /\ tpc[t] = "start"
    /\ IF ~KeyPresent
       THEN /\ events' = Append(events, FALSE)
            /\ requests' = [result |-> None, error |-> None, evt |-> Len(events) + 1]
            /\ tevent' = [tevent EXCEPT ![t] = Len(events) + 1]
            /\ tfirst' = [tfirst EXCEPT ![t] = TRUE]
            /\ tearly' = [tearly EXCEPT ![t] = TRUE]
            /\ tpc' = [tpc EXCEPT ![t] = "produce"]
       ELSE /\ tevent' = [tevent EXCEPT ![t] = requests.evt]
            /\ tfirst' = [tfirst EXCEPT ![t] = FALSE]
            /\ tearly' = [tearly EXCEPT ![t] = ~events[requests.evt]]
            /\ tpc' = [tpc EXCEPT ![t] = "wait"]
            /\ UNCHANGED <<requests, events>>
    /\ UNCHANGED <<tret, produced>>
    /\ UNCHANGED <<now, storeVars, workerVars, cancelVars, histVars, settleVars, readVars, addVars, tokVars, authVars>>

\* the first caller: func() returns or raises, then the locked block that
\* publishes the outcome in the slot the key holds now and sets its event
Produce(t, out) ==
    /\ tpc[t] = "produce"
    /\ produced' = Invoke(t, out)
    /\ IF KeyPresent
       THEN /\ requests' = IF out.kind = "value"
                           THEN [result |-> out.val, error |-> None, evt |-> requests.evt]
                           ELSE [result |-> None, error |-> out.val, evt |-> requests.evt]
            /\ events' = [events EXCEPT ![requests.evt] = TRUE]
       ELSE UNCHANGED <<requests, events>>
    /\ tret' = [tret EXCEPT ![t] = out]
    /\ tpc' = [tpc EXCEPT ![t] = "sleep"]
    /\ UNCHANGED <<tevent, tfirst, tearly>>
    /\ UNCHANGED <<now, storeVars, workerVars, cancelVars, histVars, settleVars, readVars, addVars, tokVars, authVars>>

CleanupKeepingSlot(t) ==
    /\ tpc[t] = "sleep"
    /\ requests' = requests
    /\ tpc' = [tpc EXCEPT ![t] = "done"]
    /\ UNCHANGED <<events, tevent, tfirst, tearly, tret, produced>>
    /\ UNCHANGED <<now, storeVars, workerVars, cancelVars, histVars, settleVars, readVars, addVars, tokVars, authVars>>

\* the first caller after time.sleep(0.01): pop the key and return or raise
Cleanup(t) ==
    /\ tpc[t] = "sleep"
    /\ requests' = NoSlot
    /\ tpc' = [tpc EXCEPT ![t] = "done"]
    /\ UNCHANGED <<events, tevent, tfirst, tearly, tret, produced>>
    /\ UNCHANGED <<now, storeVars, workerVars, cancelVars, histVars, settleVars, readVars, addVars, tokVars, authVars>>

\* a later caller: done_event.wait() has returned; the locked block that
\* reads the slot.  `return func()` of the cleaned-up case runs inside it.
Wake(t, out) ==
    /\ tpc[t] = "wait"
    /\ events[tevent[t]]
    /\ IF ~KeyPresent
       THEN /\ produced' = Invoke(t, out)
            /\ tret' = [tret EXCEPT ![t] = out]
            /\ tpc' = [tpc EXCEPT ![t] = "done"]
       ELSE IF requests.error # None
       THEN /\ tret' = [tret EXCEPT ![t] = Error(requests.error)]
            /\ tpc' = [tpc EXCEPT ![t] = "done"]
            /\ UNCHANGED produced
       ELSE IF requests.result # None
       THEN /\ tret' = [tret EXCEPT ![t] = Value(requests.result)]
            /\ tpc' = [tpc EXCEPT ![t] = "done"]
            /\ UNCHANGED produced
       ELSE /\ tpc' = [tpc EXCEPT ![t] = "fallback"]
            /\ UNCHANGED <<tret, produced>>
    /\ UNCHANGED <<requests, events, tevent, tfirst, tearly>>
    /\ UNCHANGED <<now, storeVars, workerVars, cancelVars, histVars, settleVars, readVars, addVars, tokVars, authVars>>

\* the last line of get_or_execute: return func()
Fallback(t, out) ==
    /\ tpc[t] = "fallback"
    /\ produced' = Invoke(t, out)
    /\ tret' = [tret EXCEPT ![t] = out]
    /\ tpc' = [tpc EXCEPT ![t] = "done"]
    /\ UNCHANGED <<requests, events, tevent, tfirst, tearly>>
    /\ UNCHANGED <<now, storeVars, workerVars, cancelVars, histVars, settleVars, readVars, addVars, tokVars, authVars>>

\* clear_key, which _refresh_auction_price calls once get_or_execute has
\* returned a value and the row is committed
ClearKey(t) ==
    /\ tpc[t] = "done"
    /\ tret[t].kind = "value"
    /\ requests' = NoSlot
    /\ tpc' = [tpc EXCEPT ![t] = "cleared"]
    /\ UNCHANGED <<events, tevent, tfirst, tearly, tret, produced>>
    /\ UNCHANGED <<now, storeVars, workerVars, cancelVars, histVars, settleVars, readVars, addVars, tokVars, authVars>>

\* -------------------------------------------------------------------- time

Max(x, y) == IF x >= y THEN x ELSE y

Advance ==
    LET d == IF now = QuietFrom THEN LongWait ELSE Quantum IN
    /\ now + d <= MaxTime
    /\ now' = now + d
    /\ sleeping' = [w \in Workers |-> Max(0, sleeping[w] - d)]
    /\ UNCHANGED <<storeVars, pc, queue, snap, cur, tnow, attempt, cancelVars,
                   histVars, coalVars, settleVars, readVars, addVars, tokVars, authVars>>

\* the time after the close: nothing in the program depends on the clock
\* between the tick after the last end time and the first end time + 30 s,
\* and the clock crosses that period in one step
FirstEnd == CHOOSE e \in EndTimes : \A f \in EndTimes : e <= f
LastEnd == CHOOSE e \in EndTimes : \A f \in EndTimes : f <= e
SettleFrom == ((LastEnd \div Quantum) + 2) * Quantum
SettleWait == FirstEnd + SettleSeconds * 1000 - SettleFrom

AdvanceSettle ==
    LET d == IF now = SettleFrom THEN SettleWait ELSE Quantum IN
    /\ now >= SettleFrom
    /\ now + d <= MaxSettle
    /\ now' = now + d
    /\ sleeping' = [w \in Workers |-> Max(0, sleeping[w] - d)]
    /\ UNCHANGED <<storeVars, pc, queue, snap, cur, tnow, attempt, cancelVars,
                   histVars, coalVars, settleVars, readVars, addVars, tokVars, authVars>>

\* ------------------------------------------------------------ specification

\* the state of a fresh deployment with one auction added: as __main__
\* starts it, one worker thread beside the API handlers
InitStore(ends) ==
    /\ now = 0
    /\ status = [a \in Auctions |-> Scheduled]
    /\ auction_end_time_utc \in [Auctions -> ends]
    /\ current_price = [a \in Auctions |-> 100]
    /\ last_price_refresh_utc = [a \in Auctions |-> 0]
    /\ skip_reason = [a \in Auctions |-> NoMsg]
    /\ bid_attempts = <<>>
    /\ pc = [w \in Workers |-> "idle"]
    /\ queue = [w \in Workers |-> {}]
    /\ snap = [w \in Workers |-> ExpiredSession]
    /\ cur = [w \in Workers |-> NoAuction]
    /\ tnow = [w \in Workers |-> 0]
    /\ attempt = [w \in Workers |-> 0]
    /\ sleeping = [w \in Workers |-> 0]
    /\ cancelReq = {}
    /\ claims = [a \in Auctions |-> 0]
    /\ lostClaims = [a \in Auctions |-> FALSE]
    /\ bidCalls = [a \in Auctions |-> 0]
    /\ bidAmounts = [a \in Auctions |-> <<>>]
    /\ accepted = {}
    /\ cancelledAtTick = [w \in Workers |-> {}]
    /\ outcome = [a \in Auctions |-> Pending]
    /\ final_price = [a \in Auctions |-> NoPrice]
    /\ caught = {}
    /\ read = NoRead
    /\ limitedAt = [a \in Auctions |-> {}]

InitCoalescer ==
    /\ requests = NoSlot
    /\ events = <<>>
    /\ tpc = [t \in Threads |-> "start"]
    /\ tevent = [t \in Threads |-> 0]
    /\ tfirst = [t \in Threads |-> FALSE]
    /\ tearly = [t \in Threads |-> FALSE]
    /\ tret = [t \in Threads |-> NoOutcome]
    /\ produced = <<>>

\* eBayClient.__init__: the tokens come from the environment, no expiry known
NoTokens ==
    /\ oauth = [app_token |-> TRUE, user_token |-> TRUE, refresh_token |-> TRUE,
                app_expires_at |-> NoExpiry, user_expires_at |-> NoExpiry]
    /\ treq = [c \in Callers |-> NoCall]

\* no add request is under way and the table of the add requests is empty
NoAdds ==
    /\ table = <<>>
    /\ areq = [r \in Adders |-> NoAdd]
    /\ bulk = NoBulk

Init == InitStore(EndTimes) /\ InitCoalescer /\ NoAdds /\ NoTokens /\ NoResponse /\ instances = {1}

\* several scheduler instances on one Store
InitMulti == InitStore({61300}) /\ InitCoalescer /\ NoAdds /\ NoTokens /\ NoResponse /\ instances = Workers

Next ==
    \/ \E w \in Workers : TickStart(w)
    \/ \E w \in Workers : TickEnd(w)
    \/ \E w \in Workers, a \in Auctions : ProcessAuction(w, a)
    \/ \E w \in Workers, r \in Prices : PreCheckReturn(w, TRUE, r)
    \/ \E w \in Workers : PreCheckReturn(w, FALSE, 0)
    \/ \E w \in Workers : Claim(w)
    \/ \E w \in Workers : AfterClaim(w)
    \/ \E w \in Workers : Attempt(w)
    \/ \E w \in Workers, o \in BidOutcomes : BidReturn(w, o)
    \/ \E w \in Workers : Crash(w)
    \/ \E w \in Workers : CrashBeforeCommit(w)
    \/ \E a \in Auctions : CancelRead(a)
    \/ \E a \in Auctions : CancelWrite(a)
    \/ Advance

Spec == Init /\ [][Next]_vars

SpecMulti == InitMulti /\ [][Next]_vars

\* the deployment followed beyond the close, when the reconciler acts
NextSettle ==
    \/ Next
    \/ \E w \in Workers, reply \in OutcomeReplies : OutcomeReturn(w, reply)
    \/ \E w \in Workers, fp \in {NoPrice, 125} : FinalPriceReturn(w, fp)
    \/ AdvanceSettle

SpecSettle == Init /\ [][NextSettle]_vars

\* the answers of place_bid by class: accepted, timeout, an error that is
\* retried, an error that is final
ReadBidOutcomes == {"ok", "timeout", MsgServerError, MsgAuctionEnded}

\* the prices the pre-bid check can fetch by class: within max_bid, above it
ReadPrices == {100, 200}

\* the deployment with clients that read while the worker runs
NextRead ==
    \/ \E w \in Workers : TickStart(w)
    \/ \E w \in Workers : TickEnd(w)
    \/ \E w \in Workers, a \in Auctions : ProcessAuction(w, a)
    \/ \E w \in Workers, r \in ReadPrices : PreCheckReturn(w, TRUE, r)
    \/ \E w \in Workers : PreCheckReturn(w, FALSE, 0)
    \/ \E w \in Workers : Claim(w)
    \/ \E w \in Workers : AfterClaim(w)
    \/ \E w \in Workers : Attempt(w)
    \/ \E w \in Workers, o \in ReadBidOutcomes : BidReturn(w, o)
    \/ \E w \in Workers : Crash(w)
    \/ \E a \in Auctions : CancelRead(a)
    \/ \E a \in Auctions : CancelWrite(a)
    \/ Advance
    \/ \E w \in Workers, reply \in OutcomeReplies : OutcomeReturn(w, reply)
    \/ \E w \in Workers, fp \in {NoPrice, 125} : FinalPriceReturn(w, fp)
    \/ AdvanceSettle
    \/ \E a \in Auctions : ReadStart(a)
    \/ \E op \in ReadOps, reply \in RefreshReplies : RefreshReturn(op, reply)
    \/ ReadDone

InitRead == InitStore({FirstEnd}) /\ InitCoalescer /\ NoAdds /\ NoTokens /\ NoResponse /\ instances = {1}

SpecRead == InitRead /\ [][NextRead]_vars

\* the requests that add auctions: two add_sniper requests for listing L1
\* and one bulk_add_snipers request arrive on a table that is empty or holds
\* an auction of listing L1 in any status
MaxItems == 2

BulkInputs ==
    UNION {[1..n -> [listing_number : Listings, max_bid : MaxBids]] : n \in 1..MaxItems}

\* the ids the table can come to hold
RowIds == 1..(1 + Cardinality(Adders) + MaxItems)

InitAdd ==
    /\ InitStore({FirstEnd})
    /\ InitCoalescer
    /\ instances = {1}
    /\ table \in {<<>>} \cup
                 {<<[NewAuction("L1", 150, [end |-> 61000, price |-> 100])
                        EXCEPT !.status = st]>> : st \in AuctionStatus}
    /\ areq \in [Adders -> [pc : {"start"}, listing_number : {"L1"}, max_bid : MaxBids,
                            code : {"none"}, detail : {NoMsg}, id : {0}]]
    /\ bulk \in [pc : {"item"}, i : {1}, items : BulkInputs, results : {<<>>}]
    /\ NoTokens
    /\ NoResponse

NextAdd ==
    \/ \E r \in Adders : AddCheck(r)
    \/ \E r \in Adders, reply \in AddReplies : AddReturn(r, reply)
    \/ BulkCheck
    \/ \E reply \in AddReplies : BulkReturn(reply)
    \/ \E i \in RowIds : Remove(i)

SpecAdd == InitAdd /\ [][NextAdd]_vars

InitTokens ==
    /\ InitStore({FirstEnd})
    /\ InitCoalescer
    /\ NoAdds
    /\ instances = {1}
    /\ oauth \in [app_token : BOOLEAN, user_token : BOOLEAN, refresh_token : BOOLEAN,
                  app_expires_at : {NoExpiry}, user_expires_at : {NoExpiry}]
    /\ treq = [c \in Callers |-> NoCall]
    /\ NoResponse

NextTokens ==
    \/ \E c \in Callers : EnsureValid(c)
    \/ \E c \in Callers, ok \in BOOLEAN : EnsureReturn(c, ok)
    \/ \E c \in Callers, code \in CallReplies : CallReturn(c, code)
    \/ \E c \in Callers, ok \in BOOLEAN : RetryReturn(c, ok)
    \/ \E c \in Callers, code \in CallReplies : RetryCallReturn(c, code)
    \/ \E c \in Callers : CallDone(c)
    \/ TokenAdvance

SpecTokens == InitTokens /\ [][NextTokens]_vars

\* what follows is the API alone: requests arrive with any header, the
\* handlers run to their answers, the clock goes on
InitAuth ==
    /\ InitStore({FirstEnd})
    /\ InitCoalescer
    /\ NoAdds
    /\ NoTokens
    /\ NoResponse
    /\ instances = {1}

NextAuth ==
    \/ \E op \in Operations, h \in Headers : Call(op, h)
    \/ Authenticate
    \/ \E a \in Auctions : CancelWrite(a)
    \/ \E op \in ReadOps, reply \in AuthRefreshReplies : RefreshReturn(op, reply)
    \/ ReadDone
    \/ \E r \in AuthAdders : AddCheck(r)
    \/ \E r \in AuthAdders, reply \in AuthAddReplies : AddReturn(r, reply)
    \/ BulkCheck
    \/ \E reply \in AuthAddReplies : BulkReturn(reply)
    \/ AuthAdvance

SpecAuth == InitAuth /\ [][NextAuth]_vars

NextCoalescer ==
    \/ \E t \in Threads : Enter(t)
    \/ \E t \in Threads, out \in ProducerOutcomes : Produce(t, out)
    \/ \E t \in Threads : Cleanup(t)
    \/ \E t \in Threads, out \in ProducerOutcomes : Wake(t, out)
    \/ \E t \in Threads, out \in ProducerOutcomes : Fallback(t, out)
    \/ \E t \in Threads : ClearKey(t)

SpecCoalescer == Init /\ [][NextCoalescer]_vars

\* every thread that can take its next step inside get_or_execute takes it,
\* and the producer terminates; nothing obliges a caller to call clear_key
FairCoalescer ==
    \A t \in Threads :
        /\ WF_vars(Enter(t))
        /\ WF_vars(\E out \in ProducerOutcomes : Produce(t, out))
        /\ WF_vars(Cleanup(t))
        /\ WF_vars(\E out \in ProducerOutcomes : Wake(t, out))
        /\ WF_vars(\E out \in ProducerOutcomes : Fallback(t, out))

SpecCoalescerFair == SpecCoalescer /\ FairCoalescer

\* ------------------------------------------------ the tick loop in its time

\* requests.get(..., timeout=5) in get_auction_details, in milliseconds
DetailsTimeoutMs == 5000

\* how long the handling of the auctions ahead of a given one in the tick's
\* query result takes: one tick sleep, or a marketplace call that answers
\* when its timeout is nearly over
OtherDurations == {Quantum, DetailsTimeoutMs}

\* run_loop: the query for the active auctions, then the for loop handles
\* the auctions that come first in the result, which takes d, before it
\* reaches the auction of the model
TickStartBehind(w, d) ==
    /\ w \in instances
    /\ pc[w] = "idle"
    /\ sleeping[w] = 0
    /\ LET active == {a \in Auctions : status[a] \in {Scheduled, Executing}} IN
       /\ active # {}
       /\ queue' = [queue EXCEPT ![w] = active]
       /\ snap' = [snap EXCEPT ![w] =
                     [a \in Auctions |-> IF a \in active THEN status[a] ELSE Expired]]
    /\ pc' = [pc EXCEPT ![w] = "loop"]
    /\ sleeping' = [sleeping EXCEPT ![w] = d]
    /\ cancelledAtTick' = [cancelledAtTick EXCEPT ![w] =
                             {a \in Auctions : status[a] = Cancelled}]
    /\ UNCHANGED <<now, storeVars, cur, tnow, attempt, cancelVars,
                   bidHist, coalVars, settleVars, readVars, addVars, tokVars, authVars>>

\* the thread has nothing to wait for
Awake(w) == sleeping[w] = 0

\* time passes only while every scheduler thread is in a time.sleep or in the
\* handling of another auction; beyond MaxTime only the waits run down
Elapse ==
    LET d == IF now = QuietFrom THEN LongWait ELSE Quantum IN
    /\ \A w \in instances : ~Awake(w)
    /\ now' = IF now + d <= MaxTime THEN now + d ELSE now
    /\ sleeping' = [w \in Workers |-> Max(0, sleeping[w] - d)]
    /\ UNCHANGED <<storeVars, pc, queue, snap, cur, tnow, attempt, cancelVars,
                   histVars, coalVars, settleVars, readVars, addVars, tokVars, authVars>>

\* the for loop reaches the auction once the ones ahead of it are handled
ProcessReached(w, a) ==
    /\ Awake(w)
    /\ ProcessAuction(w, a)

\* one scheduler thread whose own steps take no time: the marketplace
\* answers its calls for the auction of the model at once
NextBusy ==
    \/ \E w \in Workers : TickStart(w)
    \/ \E w \in Workers, d \in OtherDurations : TickStartBehind(w, d)
    \/ \E w \in Workers : TickEnd(w)
    \/ \E w \in Workers, a \in Auctions : ProcessReached(w, a)
    \/ \E w \in Workers, r \in Prices : PreCheckReturn(w, TRUE, r)
    \/ \E w \in Workers : PreCheckReturn(w, FALSE, 0)
    \/ \E w \in Workers : Claim(w)
    \/ \E w \in Workers : AfterClaim(w)
    \/ \E w \in Workers : Attempt(w)
    \/ \E w \in Workers, o \in BidOutcomes : BidReturn(w, o)
    \/ Elapse

\* run_loop is `while self.running`: the thread takes its next step, and
\* the clock runs
FairBusy == WF_vars(NextBusy)

SpecBusy == Init /\ [][NextBusy]_vars /\ FairBusy

\* the executor dies in the middle of a place_bid call
CrashMidBid(w) ==
    /\ pc[w] = "bidding"
    /\ Crash(w)

\* the scheduler thread and the clock
NextTicking ==
    \/ \E w \in Workers : TickStart(w)
    \/ \E w \in Workers : TickEnd(w)
    \/ \E w \in Workers, a \in Auctions : ProcessReached(w, a)
    \/ \E w \in Workers, r \in Prices : PreCheckReturn(w, TRUE, r)
    \/ \E w \in Workers : PreCheckReturn(w, FALSE, 0)
    \/ \E w \in Workers : Claim(w)
    \/ \E w \in Workers : AfterClaim(w)
    \/ \E w \in Workers : Attempt(w)
    \/ \E w \in Workers, o \in BidOutcomes : BidReturn(w, o)
    \/ Elapse

\* the scheduler with an executor that can die mid-bid and be started again,
\* beside Cancel requests
NextRecover ==
    \/ NextTicking
    \/ \E w \in Workers : CrashMidBid(w)
    \/ \E w \in Workers : CrashBeforeCommit(w)
    \/ \E a \in Auctions : CancelRead(a)
    \/ \E a \in Auctions : CancelWrite(a)

\* the scheduler keeps ticking; nothing obliges a crash or a Cancel request
FairRecover == WF_vars(NextTicking)

SpecRecover == Init /\ [][NextRecover]_vars /\ FairRecover

\* the clock of the scheduler thread beyond the close: as Elapse, and the
\* period up to the first end time + 30 s is crossed in one step
ElapseSettle ==
    LET d == IF now = QuietFrom THEN LongWait
             ELSE IF now = SettleFrom THEN SettleWait ELSE Quantum
    IN
    /\ \A w \in instances : ~Awake(w)
    /\ now' = IF now + d <= MaxSettle THEN now + d ELSE now
    /\ sleeping' = [w \in Workers |-> Max(0, sleeping[w] - d)]
    /\ UNCHANGED <<storeVars, pc, queue, snap, cur, tnow, attempt, cancelVars,
                   histVars, coalVars, settleVars, readVars, addVars, tokVars, authVars>>

\* the marketplace reports the auction as ended
EndedReply(reply) == reply.http = "200" /\ reply.auctionStatus = "ENDED"

\* the scheduler thread through both passes of its ticks, and the clock
NextReconciling ==
    \/ \E w \in Workers : TickStart(w)
    \/ \E w \in Workers : TickEnd(w)
    \/ \E w \in Workers, a \in Auctions : ProcessReached(w, a)
    \/ \E w \in Workers, r \in Prices : PreCheckReturn(w, TRUE, r)
    \/ \E w \in Workers : PreCheckReturn(w, FALSE, 0)
    \/ \E w \in Workers : Claim(w)
    \/ \E w \in Workers : AfterClaim(w)
    \/ \E w \in Workers : Attempt(w)
    \/ \E w \in Workers, o \in BidOutcomes : BidReturn(w, o)
    \/ \E w \in Workers, reply \in OutcomeReplies : OutcomeReturn(w, reply)
    \/ \E w \in Workers, fp \in {NoPrice, 125} : FinalPriceReturn(w, fp)
    \/ ElapseSettle

\* the scheduler beside Cancel requests, followed beyond the close
NextReconcile ==
    \/ NextReconciling
    \/ \E a \in Auctions : CancelRead(a)
    \/ \E a \in Auctions : CancelWrite(a)

\* the scheduler keeps ticking, and an outcome call that is made again and
\* again is answered with ENDED at last
FairReconcile ==
    /\ WF_vars(NextReconciling)
    /\ SF_vars(\E w \in Workers, reply \in OutcomeReplies :
                   EndedReply(reply) /\ OutcomeReturn(w, reply))

SpecReconcile == Init /\ [][NextReconcile]_vars /\ FairReconcile

\* ------------------------------------------------------------------ claims

\* worker w is inside _execute_bid for auction a, behind a claim that updated a row
InExecute(w, a) == pc[w] \in {"claimed", "attempt", "bidding"} /\ cur[w] = a

\* the rows only _execute_bid writes
ExecuteMessages == {NoMsg, MsgEndedBeforeBid, MsgOutOfTime, MsgExhausted} \cup BidErrors

C1_OneClaim ==
    \A a \in Auctions :
        /\ claims[a] <= 1
        /\ Cardinality({w \in Workers : InExecute(w, a)}) <= claims[a]
        /\ bidCalls[a] > 0 => claims[a] = 1
        /\ Len(AttemptsOf(a)) <= 1
        /\ \A i \in 1..Len(bid_attempts) :
              (bid_attempts[i].auction_id = a
               /\ bid_attempts[i].error_message \in ExecuteMessages) => claims[a] = 1

\* one step of the claim: on a Scheduled row it updates the row and goes on,
\* on any other row it returns and leaves Store and history as they are
C1_ClaimStep ==
    \A w \in Workers :
        (pc[w] = "execute" /\ pc'[w] \in {"claimed", "loop"}) =>
            IF status[cur[w]] = Scheduled
            THEN /\ pc'[w] = "claimed"
                 /\ status'[cur[w]] = Executing
                 /\ claims'[cur[w]] = 1
            ELSE /\ pc'[w] = "loop"
                 /\ UNCHANGED <<storeVars, claims, bidCalls>>

\* C1: of the concurrent or repeated invocations of _execute_bid for one
\* auction, by any number of scheduler instances, exactly one claims the
\* auction (Scheduled -> Executing); only that one calls place_bid and
\* records a BidAttempt, every other one returns without side effect, and an
\* auction never has more than one BidAttempt.
C1_ExactlyOneExecute == []C1_OneClaim /\ [][C1_ClaimStep]_vars

\* two invocations for one auction: one has claimed it and has called
\* place_bid, the other one's claim has updated no row
C1_Witness ==
    \E a \in Auctions :
        /\ claims[a] = 1
        /\ lostClaims[a]
        /\ bidCalls[a] > 0
        /\ Len(AttemptsOf(a)) = 1

SuccessAttempts(a) == SelectSeq(bid_attempts,
                                LAMBDA r : r.auction_id = a /\ r.result = Success)

\* C2: in every reachable state an auction's status is BidPlaced if and only
\* if exactly one BidAttempt with result = success exists for it.
C2_BidPlacedIffSuccess ==
    \A a \in Auctions : status[a] = BidPlaced <=> Len(SuccessAttempts(a)) = 1

\* C3: once an auction's status is BidPlaced, Failed, Cancelled or Skipped,
\* no step changes it again.
C3_TerminalIsFinal ==
    [][\A a \in Auctions : status[a] \in TerminalStatus => status'[a] = status[a]]_vars

\* C4: Cancel writes Cancelled only over a stored status that is Scheduled at
\* the moment of the write, so a Cancel and a claim never both succeed for
\* one auction and an Executing auction is never moved to Cancelled.
C4_CancelIsCompareAndSet ==
    [][\A a \in Auctions :
          (status'[a] = Cancelled /\ status[a] # Cancelled) =>
              (status[a] = Scheduled /\ claims[a] = 0)]_vars

\* C5: in every reachable state an auction whose status is Failed has exactly
\* one BidAttempt.
C5_FailedHasOneAttempt ==
    \A a \in Auctions : status[a] = Failed => Len(AttemptsOf(a)) = 1

\* Failed by each of the three ways: the cleanup of an ended Scheduled
\* auction, the recovery of a crashed execution, a failure exit of execute
C5_Witness ==
    \E a \in Auctions :
        /\ status[a] = Failed
        /\ Len(AttemptsOf(a)) = 1
        /\ AttemptsOf(a)[1].error_message = MsgCrashed

\* the producer invocations made by caller t
InvocationsBy(t) == SelectSeq(produced, LAMBDA r : r.by = t)

\* the flight a caller joined is the done_event it holds; the flight's
\* outcome is what the producer did for the caller that opened it
Opener(f) == CHOOSE t \in Threads : tfirst[t] /\ tevent[t] = f
Returned(t) == tpc[t] \in {"done", "cleared"}
Coalesced(t) == Returned(t) /\ ~tfirst[t] /\ tearly[t]

\* C6: of the calls of get_or_execute that arrive for a key before the first
\* caller's producer call has completed, only the first invokes the producer,
\* and every one of them returns what that single invocation returned,
\* whatever the value and however the waiters are scheduled.
C6_OneInvocationPerFlight ==
    \A t \in Threads :
        Coalesced(t) =>
            /\ Len(InvocationsBy(t)) = 0
            /\ Len(InvocationsBy(Opener(tevent[t]))) = 1
            /\ tret[t] = InvocationsBy(Opener(tevent[t]))[1].out

\* C7: when the producer of a flight raises, the first caller and every
\* waiter of that flight raise that same error and no waiter invokes the
\* producer again.
C7_ErrorReachesEveryWaiter ==
    \A t \in Threads :
        (/\ Coalesced(t)
         /\ Len(InvocationsBy(Opener(tevent[t]))) >= 1
         /\ InvocationsBy(Opener(tevent[t]))[1].out.kind = "error") =>
            /\ Len(InvocationsBy(t)) = 0
            /\ tret[t] = InvocationsBy(Opener(tevent[t]))[1].out
            /\ Returned(Opener(tevent[t])) =>
                  tret[Opener(tevent[t])] = InvocationsBy(Opener(tevent[t]))[1].out

\* C8: over the whole life of an auction place_bid is invoked at most 4
\* times, with crashes, restarts, repeated ticks and several instances.
C8_AtMostFourBids == \A a \in Auctions : bidCalls[a] <= 4

\* all four attempts of one execute were made
C8_Witness == \E a \in Auctions : bidCalls[a] = 4 /\ Len(AttemptsOf(a)) = 1

\* the step in which worker w calls place_bid
BidInitiated(w) == pc[w] = "attempt" /\ pc'[w] = "bidding"

\* the step in which execute finds the auction ended right after the claim,
\* or the watchdog instant reached in front of an attempt
TimeExit(w) ==
    \/ pc[w] = "claimed" /\ pc'[w] = "loop"
    \/ pc[w] = "attempt" /\ pc'[w] = "loop"

C9_Step ==
    \A w \in Workers :
        LET a == cur[w] IN
        /\ BidInitiated(w) => now < auction_end_time_utc[a] - 300
        /\ (pc[w] = "claimed" /\ pc'[w] \in {"loop", "attempt"}) =>
              (pc'[w] = "loop" <=> now >= auction_end_time_utc[a])
        /\ (pc[w] = "attempt" /\ pc'[w] \in {"loop", "bidding"}) =>
              (pc'[w] = "loop" <=> now >= auction_end_time_utc[a] - 300)
        /\ TimeExit(w) =>
              /\ bidCalls' = bidCalls
              /\ status'[a] = Failed
              /\ Len(AttemptsOf(a)) = 0
              /\ bid_attempts' =
                   Append(bid_attempts,
                          BidAttempt(a, FailedResult,
                                     IF pc[w] = "claimed" THEN MsgEndedBeforeBid
                                     ELSE MsgOutOfTime))

\* C9: execute never calls place_bid at an instant now >= end_time_utc - 300
\* ms; when the auction has ended right after the claim, or the watchdog
\* instant is reached in front of an attempt, it makes no further place_bid
\* call, records one failure BidAttempt and sets the status to Failed.
C9_Watchdog == [][C9_Step]_vars

\* the watchdog has stopped an execute after at least one attempt
C9_Witness ==
    \E a \in Auctions :
        /\ status[a] = Failed
        /\ bidCalls[a] > 0
        /\ Len(AttemptsOf(a)) = 1
        /\ AttemptsOf(a)[1].error_message = MsgOutOfTime

\* C10: every place_bid call is initiated at an instant
\* t >= end_time_utc - bid_offset (3 s).
C10_NotBeforeBidOffset ==
    [][\A w \in Workers :
          BidInitiated(w) => now >= auction_end_time_utc[cur[w]] - 3000]_vars

\* C10 as amended: the auction is claimed, and every place_bid call is
\* initiated, at an instant t > end_time_utc - bid_offset - 1 s.
C10_NotBeforeWindow ==
    [][\A w \in Workers :
          /\ BidInitiated(w) => now > auction_end_time_utc[cur[w]] - 3000 - 1000
          /\ (pc[w] = "execute" /\ pc'[w] = "claimed") =>
                now > auction_end_time_utc[cur[w]] - 3000 - 1000]_vars

\* a place_bid call in flight earlier than bid_offset before the close
C10_Witness ==
    \E w \in Workers :
        /\ pc[w] = "bidding"
        /\ now < auction_end_time_utc[cur[w]] - 3000

\* the auction's only BidAttempt after the step is a failure with message msg
FailedWith(a, msg) ==
    /\ status'[a] = Failed
    /\ bid_attempts' = Append(bid_attempts, BidAttempt(a, FailedResult, msg))
    /\ Len(AttemptsOf(a)) = 0

\* execute goes on to its next attempt and leaves the Store as it is
GoesOn(w) ==
    /\ pc'[w] = "attempt"
    /\ attempt'[w] = attempt[w] + 1
    /\ UNCHANGED <<storeVars, bidCalls>>

\* C11 as stated: after every place_bid timeout execute goes on to another
\* attempt (which the watchdog lets through while the window is open)
\* instead of failing the auction.
C11_TimeoutAlwaysRetried ==
    [][\A w \in Workers : BidReturn(w, "timeout") => GoesOn(w)]_vars

\* C11 as amended: a timeout on one of the first three attempts is always
\* retried, execute goes on to the next attempt without writing anything; a
\* success on the second attempt, the first having failed retryably (as a
\* timeout does), ends with status BidPlaced, exactly one BidAttempt, which
\* is a success, and place_bid called exactly twice; a timeout on the fourth
\* attempt ends execute with "All retry attempts exhausted".
C11_TimeoutRetriedWhileAttemptsRemain ==
    [][\A w \in Workers :
          /\ (BidReturn(w, "timeout") /\ attempt[w] < max_attempts - 1) => GoesOn(w)
          /\ (BidReturn(w, "timeout") /\ attempt[w] = max_attempts - 1) =>
                (pc'[w] = "loop" /\ FailedWith(cur[w], MsgExhausted))
          /\ (BidReturn(w, "ok") /\ attempt[w] = 1) =>
                /\ status'[cur[w]] = BidPlaced
                /\ bid_attempts' = <<BidAttempt(cur[w], Success, NoMsg)>>
                /\ bidCalls[cur[w]] = 2
                /\ bidCalls' = bidCalls]_vars

\* a first attempt that failed retryably (the state is the same after a
\* timeout, a 429 and a 5xx) and a second attempt that succeeded
C11_Witness ==
    \E a \in Auctions :
        /\ status[a] = BidPlaced
        /\ bidCalls[a] = 2
        /\ bid_attempts = <<BidAttempt(a, Success, NoMsg)>>

\* C12: when a place_bid attempt fails with one of the mapped marketplace
\* errors (neither a timeout nor 429 nor 5xx), execute makes no further
\* place_bid call, records one failure BidAttempt carrying that error's
\* message and sets status Failed.
C12_MappedErrorsAreFinal ==
    [][\A w \in Workers, o \in MappedErrors :
          BidReturn(w, o) =>
              /\ pc'[w] = "loop"
              /\ FailedWith(cur[w], o)
              /\ bidCalls' = bidCalls]_vars

\* C13 as stated: when the fourth attempt of an execute fails with a
\* retryable error, the three before it having failed retryably, execute
\* records one failure BidAttempt "All retry attempts exhausted" and sets
\* status Failed.
C13_ExhaustedAfterFourRetryable ==
    [][\A w \in Workers, o \in {"timeout", MsgRateLimited, MsgServerError} :
          (BidReturn(w, o) /\ attempt[w] = max_attempts - 1) =>
              (pc'[w] = "loop" /\ FailedWith(cur[w], MsgExhausted))]_vars

\* C13 as amended: the fourth attempt failing with a retryable error ends
\* execute with exactly one failure BidAttempt and status Failed; the
\* message is "All retry attempts exhausted" when the fourth attempt timed
\* out and the error's own text when it failed with 429 or 5xx.
C13_FourthFailureIsFinal ==
    [][\A w \in Workers, o \in {"timeout", MsgRateLimited, MsgServerError} :
          (BidReturn(w, o) /\ attempt[w] = max_attempts - 1) =>
              /\ pc'[w] = "loop"
              /\ bidCalls' = bidCalls
              /\ FailedWith(cur[w], IF o = "timeout" THEN MsgExhausted ELSE o)]_vars

\* four attempts were made and the execute ended as exhausted
C13_Witness ==
    \E a \in Auctions :
        /\ status[a] = Failed
        /\ bidCalls[a] = max_attempts
        /\ bid_attempts = <<BidAttempt(a, FailedResult, MsgExhausted)>>

\* the pre-bid guard returns in this step, having fetched price r or not
GuardReturns(w, fetched, r) == PreCheckReturn(w, fetched, r)

\* the guard's step skips the auction, and writes nothing but the skip
SkipsIt(a) ==
    /\ status' = [status EXCEPT ![a] = Skipped]
    /\ skip_reason' = [skip_reason EXCEPT ![a] = MsgSkip]
    /\ bid_attempts' = bid_attempts

C14_GuardStep ==
    /\ \A w \in Workers, r \in Prices :
          GuardReturns(w, TRUE, r) =>
              IF r > max_bid[cur[w]]
              THEN SkipsIt(cur[w]) /\ pc'[w] = "loop"
              ELSE UNCHANGED <<status, skip_reason, bid_attempts>>
    /\ \A w \in Workers :
          GuardReturns(w, FALSE, 0) => UNCHANGED <<storeVars>>
    /\ \A a \in Auctions :
          (status'[a] = Skipped /\ status[a] # Skipped) =>
              \E w \in Workers, r \in Prices :
                  GuardReturns(w, TRUE, r) /\ cur[w] = a /\ r > max_bid[a]

\* an auction the guard has skipped (skip_reason is written by the guard
\* only) has no BidAttempt, was never claimed and never bid for
C14_SkippedNeverExecuted ==
    \A a \in Auctions :
        skip_reason[a] = MsgSkip =>
            /\ AttemptsOf(a) = <<>>
            /\ claims[a] = 0
            /\ bidCalls[a] = 0
            /\ \A w \in Workers : cur[w] = a => pc[w] = "precheck"

\* C14: the pre-bid guard moves the auction to Skipped, with reason "Current
\* price exceeded max bid at T-60s", if and only if the fetch of the live
\* details succeeds and the fetched current_price is strictly greater than
\* max_bid; a skipped auction gets no BidAttempt and is never executed; when
\* the fetch fails or current_price <= max_bid the guard leaves the status
\* as it is, so the auction stays Scheduled and is claimed at bid time.
C14_GuardSkipsIffPriceAboveMax == []C14_SkippedNeverExecuted /\ [][C14_GuardStep]_vars

\* the guard fetched a price equal to max_bid, let the auction pass, and the
\* auction was claimed at bid time
C14_Witness ==
    \E a \in Auctions :
        /\ current_price[a] = max_bid[a]
        /\ last_price_refresh_utc[a] > 0
        /\ skip_reason[a] = NoMsg
        /\ claims[a] = 1

\* C15: on a tick, an auction the worker holds as Scheduled or Executing
\* with now >= end_time_utc is set to Failed and afterwards has exactly one
\* BidAttempt, a failure ("Auction ended before worker could process it" for
\* Scheduled, "Worker crashed during execution, auction ended" for
\* Executing, created unless one exists already); the step makes no
\* marketplace call, neither get_details nor place_bid.
C15_EndedCleanup ==
    [][\A w \in Workers, a \in Auctions :
          (/\ ProcessAuction(w, a)
           /\ Loaded(w, a) \in {Scheduled, Executing}
           /\ now >= auction_end_time_utc[a]) =>
              /\ status'[a] = Failed
              /\ IF Len(AttemptsOf(a)) = 0
                 THEN FailedWith(a, IF Loaded(w, a) = Scheduled THEN MsgEndedUnprocessed
                                    ELSE MsgCrashed)
                 ELSE /\ bid_attempts' = bid_attempts
                      /\ Len(AttemptsOf(a)) = 1
                      /\ AttemptsOf(a)[1].result = FailedResult
              /\ pc'[w] = "loop"
              /\ UNCHANGED <<bidCalls, claims, current_price, last_price_refresh_utc>>]_vars

\* the worker was not running when the auction ended: the first tick after
\* the end has failed the auction that was still Scheduled
C15_Witness ==
    \E a \in Auctions :
        /\ status[a] = Failed
        /\ bid_attempts = <<BidAttempt(a, FailedResult, MsgEndedUnprocessed)>>
        /\ claims[a] = 0
        /\ bidCalls[a] = 0
        /\ last_price_refresh_utc[a] = 0

\* a step that changes the outcome of an auction is the return of
\* get_auction_outcome for that auction, which is BidPlaced with outcome
\* Pending and ended at least 30 s ago
C16_OutcomeStep ==
    \A a \in Auctions :
        outcome'[a] # outcome[a] =>
            /\ \E w \in Workers : pc[w] = "outcome" /\ cur[w] = a
            /\ status[a] = BidPlaced
            /\ outcome[a] = Pending
            /\ now >= auction_end_time_utc[a] + SettleSeconds * 1000

\* a step that calls the outcome endpoint for an auction
OutcomeCall(w, a) ==
    /\ pc'[w] = "outcome"
    /\ cur'[w] = a
    /\ ~(pc[w] = "outcome" /\ cur[w] = a)

\* the outcome endpoint is called for no other auction
C16_CallStep ==
    \A w \in Workers, a \in Auctions :
        OutcomeCall(w, a) =>
            /\ status[a] = BidPlaced
            /\ outcome[a] = Pending
            /\ now >= auction_end_time_utc[a] + SettleSeconds * 1000

\* C16: outcome is changed only by the reconciler's bidding-outcome path and
\* only for an auction with status = BidPlaced, outcome = Pending and
\* now >= end_time_utc + 30 s; for every other auction the outcome endpoint
\* is not called; the final-price path and every other operation never alter
\* outcome, so an outcome that is Won or Lost never changes again.
C16_OutcomeOnlyForSettledBidPlaced == [][C16_OutcomeStep /\ C16_CallStep]_vars

\* C18: the outcome derived from a bidding-outcome reply is Won iff
\* auctionStatus = ENDED and we are the high bidder, Lost iff auctionStatus =
\* ENDED and we are not the high bidder (a missing high-bidder flag counts
\* as not), and Pending for every other auctionStatus and for a 404 reply;
\* the reconciler stores the Won or Lost it derives.
C18_OutcomeDerivedFromReply ==
    [][\A w \in Workers, reply \in OutcomeReplies :
          (OutcomeReturn(w, reply) /\ reply.http \in {"200", "404"}) =>
              LET data == get_auction_outcome(reply)
                  ended == reply.http = "200" /\ reply.auctionStatus = "ENDED"
                  high == reply.highBidder = "true"
              IN /\ data.kind = "ok"
                 /\ data.outcome = Won <=> (ended /\ high)
                 /\ data.outcome = Lost <=> (ended /\ ~high)
                 /\ data.outcome = Pending <=> ~ended
                 /\ outcome'[cur[w]] = IF ended THEN data.outcome ELSE outcome[cur[w]]]_vars

\* the reconciler has stored Lost, with the final price of the reply
C18_Witness ==
    \E a \in Auctions :
        /\ status[a] = BidPlaced
        /\ outcome[a] = Lost
        /\ final_price[a] = 125

\* a step of worker w that calls the marketplace for auction a
MarketCall(w, a) ==
    /\ cur'[w] = a
    /\ pc'[w] \in {"precheck", "bidding", "outcome", "finalprice"}
    /\ (pc[w] # pc'[w] \/ cur[w] # a)

\* C19 as stated: after a Cancel has succeeded, every subsequent tick (a
\* tick that began when the auction was Cancelled already) leaves the
\* auction's status Cancelled, and the marketplace is not called for that
\* auction on any subsequent tick, neither in the process pass nor in the
\* reconciliation pass, before or after its end time.
C19_CancelledLeftAlone ==
    [][\A w \in Workers, a \in Auctions :
          a \in cancelledAtTick[w] =>
              /\ status[a] = Cancelled
              /\ status'[a] = Cancelled
              /\ ~MarketCall(w, a)]_vars

\* C19: after a Cancel has succeeded, every subsequent tick leaves the
\* auction's status Cancelled and calls neither get_auction_details nor
\* place_bid nor the outcome endpoint for it; the one marketplace call a
\* subsequent tick makes for it is the reconciler's final-price lookup, made
\* only when the auction ended at least 30 s ago and has neither a final
\* price nor an outcome.
C19_CancelledOnlyFinalPrice ==
    [][\A w \in Workers, a \in Auctions :
          a \in cancelledAtTick[w] =>
              /\ status[a] = Cancelled
              /\ status'[a] = Cancelled
              /\ MarketCall(w, a) =>
                     /\ pc'[w] = "finalprice"
                     /\ now >= auction_end_time_utc[a] + SettleSeconds * 1000
                     /\ final_price[a] = NoPrice
                     /\ outcome[a] = Pending]_vars

\* a tick that began after the Cancel is looking up the final price of the
\* cancelled auction
C19_Witness ==
    \E w \in Workers, a \in Auctions :
        /\ a \in cancelledAtTick[w]
        /\ status[a] = Cancelled
        /\ pc[w] = "finalprice"
        /\ cur[w] = a

\* C17: in every reachable state, outcome # Pending implies
\* end_time_utc < now and status in {BidPlaced, Failed}, under any
\* interleaving of reconciliation with Cancel and with price refreshes.
C17_OutcomeImpliesEndedAndBid ==
    \A a \in Auctions :
        outcome[a] # Pending =>
            /\ auction_end_time_utc[a] < now
            /\ status[a] \in {BidPlaced, Failed}

\* the row is in a status that _should_refresh_price does not exempt
Refreshed(a) ==
    /\ status[a] \notin {Cancelled, Failed, Skipped}
    /\ ~(status[a] = BidPlaced /\ now >= auction_end_time_utc[a])

\* the refresh of a read is answered with HTTP 429
C20_RateLimitedStep ==
    read.pc = "fetch" =>
    \A op \in ReadOps, reply \in RefreshReplies :
        (reply.kind = "429" /\ RefreshReturn(op, reply)) =>
            /\ UNCHANGED <<storeVars, settleVars>>
            /\ read'.pc = "done"
            /\ read'.a = read.a
            /\ read'.price \in {read.price, current_price[read.a]}
            /\ read'.price # reply.price

\* a read of a row whose last_price_refresh_utc is still the one that a
\* rate-limited read found stale
C20_NextReadStep ==
    \A a \in Auctions :
        (/\ ReadStart(a)
         /\ last_price_refresh_utc[a] \in limitedAt[a]
         /\ Refreshed(a)) => read'.pc = "fetch"

\* C20: if the marketplace answers HTTP 429 during a refresh-on-read
\* (GetStatus or ListAuctions), the stored row is left unchanged,
\* last_refresh_utc is not advanced, the read still succeeds with the cached
\* values, and the next read of that auction (an auction still in a status
\* that is refreshed) attempts the refresh again.
C20_RateLimitedReadServesCache == [][C20_RateLimitedStep /\ C20_NextReadStep]_vars

\* a refresh was answered with 429 and a later read of the same auction is
\* fetching again
C20_Witness ==
    /\ read.pc = "fetch"
    /\ last_price_refresh_utc[read.a] \in limitedAt[read.a]

\* C21: GetStatus and ListAuctions never fail because of a marketplace error
\* during refresh: for any refresh error (timeout, 5xx, 4xx, rate limit) the
\* operation still returns the auction with the previously stored values,
\* and the stored row is unchanged.
C21_ReadsSurviveRefreshErrors ==
    [][read.pc = "fetch" =>
       \A op \in ReadOps, reply \in RefreshReplies :
          (reply.kind \in RefreshErrors /\ RefreshReturn(op, reply)) =>
              /\ UNCHANGED <<storeVars, settleVars>>
              /\ read'.pc = "done"
              /\ read'.code = "200"
              /\ read'.a = read.a
              /\ read'.price \in {read.price, current_price[read.a]}]_vars

\* a read has been answered after a refresh that failed with an error other
\* than the rate limit: the row was never refreshed, by no one
C21_Witness ==
    /\ read.pc = "done"
    /\ read.code = "200"
    /\ limitedAt[read.a] = {}
    /\ last_price_refresh_utc[read.a] = 0
    /\ read.price = current_price[read.a]

C23_NoOpIffFreshAndRefreshable ==
    [][\A a \in Auctions :
          ReadStart(a) =>
              (read'.pc = "fresh" <=>
                   (/\ now - last_price_refresh_utc[a] <= 60000
                    /\ Refreshed(a)))]_vars

\* C23: on a read, refresh is a no-op (no marketplace call, row unchanged)
\* if and only if now - last_refresh_utc <= 60 s or the auction's status is
\* not refreshable (Cancelled, Failed, Skipped, or BidPlaced at or after the
\* end).
C23_NoOpIffFreshOrNotRefreshable ==
    [][\A a \in Auctions :
          ReadStart(a) =>
              /\ read'.pc = "fresh" <=>
                     (\/ now - last_price_refresh_utc[a] <= 60000
                      \/ ~Refreshed(a))
              /\ read'.pc = "fresh" =>
                     /\ UNCHANGED <<storeVars, settleVars>>
                     /\ read'.code = "200"
                     /\ read'.price = current_price[a]]_vars

\* a read of an ended BidPlaced auction is answered without a fetch although
\* the row is older than 60 s
C23_Witness ==
    /\ read.pc = "fresh"
    /\ status[read.a] = BidPlaced
    /\ now >= auction_end_time_utc[read.a]
    /\ now - last_price_refresh_utc[read.a] > 60000

\* the rows of a listing that are Scheduled or Executing
NonTerminalOf(listing) ==
    {i \in 1..Len(table) : /\ table[i].listing_number = listing
                           /\ table[i].status \in {Scheduled, Executing}}

\* a step that creates an auction
Creates == Len(table') = Len(table) + 1

Created == table'[Len(table')]

C24_AtMostOneNonTerminal ==
    \A listing \in Listings : Cardinality(NonTerminalOf(listing)) <= 1

C24_AddStep ==
    \A listing \in Listings :
        (Creates /\ Created.listing_number = listing) => NonTerminalOf(listing) = {}

\* C24: in every reachable state, under any interleaving of concurrent
\* AddAuction and BulkAdd requests, at most one non-terminal Auction exists
\* per listing_id: an add for a listing that already has a non-terminal
\* Auction is rejected as already-exists and creates nothing.
C24_OneNonTerminalPerListing == []C24_AtMostOneNonTerminal /\ [][C24_AddStep]_vars

C26_PersistsOnlyValidated ==
    [][Creates => /\ Created.auction_end_time_utc > now
                  /\ Created.max_bid > Created.current_price]_vars

\* the results of the bulk request so far: one per item gone through, in the
\* order of the items, a success naming a Scheduled auction of the item's
\* listing or a failure with its error
C27_ResultsAligned ==
    /\ bulk.pc # "none" =>
          /\ Len(bulk.results) = bulk.i - 1
          /\ Len(bulk.results) <= Len(bulk.items)
          /\ bulk.pc = "done" <=> Len(bulk.results) = Len(bulk.items)
    /\ \A k \in 1..Len(bulk.results) :
          LET res == bulk.results[k] IN
          /\ res.listing_number = bulk.items[k].listing_number
          /\ IF res.success
             THEN /\ res.auction_id \in 1..Len(table)
                  /\ table[res.auction_id].listing_number = res.listing_number
                  /\ table[res.auction_id].outcome = Pending
                  /\ res.error_message = NoMsg
             ELSE /\ res.auction_id = 0
                  /\ res.error_message # NoMsg

\* a step of the bulk request that finishes an item
C27_ItemStep ==
    Len(bulk'.results) = Len(bulk.results) + 1 =>
        LET res == bulk'.results[Len(bulk'.results)] IN
        /\ IF res.success
           THEN /\ Creates
                /\ res.auction_id = Len(table')
                /\ Created.status = Scheduled
                /\ Created.outcome = Pending
           ELSE table' = table
        /\ bulk'.pc = IF Len(bulk'.results) = Len(bulk.items) THEN "done" ELSE "item"

\* C27: BulkAdd returns exactly one result per input item, in input order,
\* each marked success (with the created auction id) or failure (with an
\* error); a failing item creates no Auction and does not prevent the later
\* items from being processed and persisted, and every created Auction
\* starts in status Scheduled with outcome Pending.
C27_BulkAddPerItem == []C27_ResultsAligned /\ [][C27_ItemStep]_vars

\* the bulk request has returned: its first item failed, its second was
\* persisted
C27_Witness ==
    /\ bulk.pc = "done"
    /\ Len(bulk.results) = 2
    /\ ~bulk.results[1].success
    /\ bulk.results[2].success
    /\ table[bulk.results[2].auction_id].status = Scheduled

\* C28: in every reachable state, under any interleaving of the pre-bid
\* guard with Cancel and the scheduler's other transitions, skip_reason is
\* non-empty if and only if status = Skipped.
C28_SkipReasonIffSkipped ==
    \A a \in Auctions : skip_reason[a] # NoMsg <=> status[a] = Skipped

\* C29: token refresh is single-flight per token kind: when several
\* concurrent callers find the application token (or the user token) due
\* for refresh, at most one refresh request for that token kind is in flight
\* at any time.
C29_RefreshSingleFlight ==
    \A kind \in TokenKinds : Cardinality(InFlight(kind)) <= 1

\* a call of get_or_execute that has entered and not returned
InFlightCall(t) == tpc[t] \in {"produce", "sleep", "wait", "fallback"}

\* the outcome the slot holds, if it holds one
Published ==
    IF requests.error # None THEN Error(requests.error)
    ELSE IF requests.result # None THEN Value(requests.result)
    ELSE NoOutcome

\* the map holds a slot only while the call that opened a flight is inside
\* get_or_execute, and an outcome only while the call that published it is;
\* a call that found no slot has invoked the producer itself, once, and
\* returns what that invocation did
C30_SlotOnlyInFlight ==
    /\ KeyPresent => \E t \in Threads : tfirst[t] /\ tpc[t] \in {"produce", "sleep"}
    /\ (KeyPresent /\ Published # NoOutcome) =>
          \E t \in Threads : tpc[t] = "sleep" /\ tret[t] = Published
    /\ (\A t \in Threads : ~InFlightCall(t)) => ~KeyPresent
    /\ \A t \in Threads :
          (tfirst[t] /\ Returned(t)) =>
              /\ Len(InvocationsBy(t)) = 1
              /\ tret[t] = InvocationsBy(t)[1].out

C30_Step ==
    \A t \in Threads :
        /\ (tpc[t] = "sleep" /\ tpc'[t] = "done") => ~KeyPresent'
        /\ (tpc[t] = "done" /\ tpc'[t] = "cleared") => ~KeyPresent'
        /\ (tpc[t] = "start" /\ tpc'[t] # "start" /\ ~KeyPresent) =>
              /\ tfirst'[t]
              /\ tpc'[t] = "produce"
        /\ (tpc[t] = "produce" /\ tpc'[t] # "produce") =>
              Len(produced') = Len(produced) + 1

ValidBearer(h) ==
    /\ h.scheme = "Bearer"
    /\ Len(h.words) >= 1
    /\ h.words[1].sig = "HS256"
    /\ ~(h.words[1].exp <= now \div 1000)

\* the marketplace calls under way for the API
ApiCalls == <<read.pc = "fetch", {r \in Adders : areq[r].pc = "fetch"}, bulk.pc = "fetch", treq>>

\* what a request for op changes when it is answered 401, or when its
\* endpoint is called: any step that is a Call of op satisfies this, or
\* changes nothing at all
Answers(op) ==
    \/ resp'.op = op /\ resp' # resp
    \/ op = "add" /\ areq' # areq
    \/ op = "bulk" /\ bulk' # bulk
    \/ op \in {"list", "status"} /\ read' # read
    \/ op = "cancel" /\ cancelReq' # cancelReq

\* C31: every operation other than Authenticate (AddAuction, BulkAdd,
\* ListAuctions, GetStatus, Cancel, GetLogs), when called without a valid
\* bearer token, is rejected and neither changes any stored state nor calls
\* the marketplace.
C31_NoTokenNoEffect ==
    [][\A op \in Operations :
          Answers(op) =>
              \A h \in Headers :
                  (~ValidBearer(h) /\ Call(op, h)) =>
                      /\ resp' = [op |-> op, code |-> "401", body |-> <<>>]
                      /\ UNCHANGED <<storeVars, settleVars, table, cancelVars, readVars,
                                     areq, bulk>>
                      /\ ApiCalls' = ApiCalls]_vars

\* a Cancel sent with an expired token was answered 401 while the auction is
\* Scheduled, and a request with a good token is at its marketplace call
C31_Witness ==
    /\ resp.op = "cancel"
    /\ resp.code = "401"
    /\ \E a \in Auctions : status[a] = Scheduled /\ a \notin cancelReq
    /\ read.pc = "fetch"

C32_AmountsSubmitted ==
    \A a \in Auctions :
        /\ Len(bidAmounts[a]) = bidCalls[a]
        /\ \A i \in 1..Len(bidAmounts[a]) : bidAmounts[a][i] = max_bid[a]

C32_BidStep ==
    \A w \in Workers :
        BidInitiated(w) =>
            bidAmounts' = [bidAmounts EXCEPT ![cur[w]] = Append(@, max_bid[cur[w]])]

\* C32: every place_bid call made by execute, on the first attempt and on
\* every retry, submits exactly the auction's max_bid as the amount,
\* independent of current_price.
C32_BidsAreMaxBid == []C32_AmountsSubmitted /\ [][C32_BidStep]_vars

\* place_bid was called a second time, after a retry, for an auction whose
\* current_price is below its max_bid
C32_Witness ==
    \E a \in Auctions :
        /\ Len(bidAmounts[a]) = 2
        /\ current_price[a] < max_bid[a]

\* C33: every get_or_execute call eventually returns (a value or an error)
\* provided the producer terminates, under any interleaving of
\* get_or_execute and clear_key calls for the same key: no waiter is ever
\* left blocked on a completion signal that is never set.
C33_EveryCallReturns ==
    \A t \in Threads : (tpc[t] # "start") ~> Returned(t)

\* C34: if the marketplace accepted a bid for an auction (a place_bid call
\* for it returned success), the auction ends with status BidPlaced and a
\* success BidAttempt and is never recorded as Failed, also when the worker
\* crashes between place_bid's return and the status write and the crash
\* recovery of a later tick or of another scheduler instance runs.
C34_AcceptedBidEndsBidPlaced ==
    \A a \in accepted :
        /\ status[a] # Failed
        /\ status[a] \in TerminalStatus =>
               /\ status[a] = BidPlaced
               /\ \E i \in 1..Len(AttemptsOf(a)) : AttemptsOf(a)[i].result = Success

\* the part of C34 that no Cancel request can break: an accepted bid is
\* never recorded as Failed
C34_AcceptedNeverFailed == \A a \in accepted : status[a] # Failed

bid_at(a) == auction_end_time_utc[a] - BID_OFFSET_SECONDS * 1000

\* C35: a Scheduled auction that is neither cancelled nor skipped and whose
\* bid instant end_time_utc - bid_offset is still in the future is claimed
\* and executed in its bid window, however long the handling of the other
\* auctions takes in the single-threaded tick loop; it is not left Scheduled
\* until the ended-cleanup marks it Failed.
C35_ExecutedInBidWindow ==
    \A a \in Auctions :
        (status[a] = Scheduled /\ now < bid_at(a))
            ~> (claims[a] > 0 \/ status[a] \in {Cancelled, Skipped})

\* C36: if the scheduler keeps ticking, every auction eventually reaches a
\* status in {BidPlaced, Failed, Cancelled, Skipped}: no auction stays
\* Scheduled or Executing forever once its end time has passed, including an
\* auction whose executor died mid-bid.
C36_EventuallyTerminal ==
    \A a \in Auctions :
        (status[a] \in {Scheduled, Executing}) ~> (status[a] \in TerminalStatus)

\* the executor died in a place_bid call, and a later tick found the
\* auction Executing after its end time and recorded it as Failed
C36_Witness ==
    \E a \in Auctions :
        /\ bidCalls[a] > 0
        /\ status[a] = Failed
        /\ now >= auction_end_time_utc[a]
        /\ AttemptsOf(a) = <<BidAttempt(a, FailedResult, MsgCrashed)>>

\* thread t runs one of the `with self._lock` blocks: every step of a caller
\* except the producer call of the first caller (with the publishing block
\* behind it) and the producer call on the last line of get_or_execute
LockedBlock(t) ==
    /\ tpc'[t] # tpc[t]
    /\ tpc[t] \notin {"produce", "fallback"}

\* C37: the coalescer holds its map lock only for map reads and updates: no
\* producer is ever executed, and no caller ever waits for a completion
\* signal, while the lock is held, so a slow producer for one key never
\* blocks get_or_execute calls for other keys.
C37_NoProducerUnderLock ==
    [][\A t \in Threads : LockedBlock(t) => produced' = produced]_vars

\* get_auction_details raises in the pre-bid check of worker w
PreCheckFailure(w) == PreCheckReturn(w, FALSE, 0)

\* the marketplace answers the outcome call of worker w with an error status
OutcomeFailure(w) ==
    \E reply \in OutcomeReplies :
        /\ reply.http \notin {"200", "404"}
        /\ OutcomeReturn(w, reply)

\* the loop of worker w goes on behind the auction in hand: with the next
\* auction of the pass, with the next pass, or with the sleep in front of
\* the next tick
LoopGoesOn(w) ==
    \/ pc'[w] \in {"outcome", "finalprice"} /\ cur'[w] \in Auctions
    \/ pc'[w] \in {"execute", "loop"}
    \/ pc'[w] = "idle" /\ sleeping'[w] = TickSleepMs

C38_FailureStep ==
    \A w \in Workers :
        /\ (pc[w] = "precheck" /\ PreCheckFailure(w)) =>
               /\ UNCHANGED <<storeVars, outcome, final_price>>
               /\ LoopGoesOn(w)
        /\ (pc[w] = "outcome" /\ OutcomeFailure(w)) =>
               /\ UNCHANGED <<storeVars, outcome, final_price>>
               /\ LoopGoesOn(w)

C39_OutcomeEventuallySet ==
    \A a \in Auctions : (status[a] = BidPlaced) ~> (outcome[a] \in {Won, Lost})

\* every row of the auctions table is still there, with the max_bid it had
C40_MaxBidKept ==
    \A i \in 1..Len(table) :
        /\ i <= Len(table')
        /\ table'[i].max_bid = table[i].max_bid

\* the step of _refresh_auction_price behind the fetch
C40_RefreshStep ==
    (read.pc = "fetch" /\ read'.pc = "done") =>
        UNCHANGED <<status, skip_reason, outcome, final_price, bid_attempts, table>>

====
